---- MODULE Spec2Model ----
(***************************************************************************)
(* State machine framework: the execution engine (sm_state_machine.c) and  *)
(* its error handler (sm_error_handler.c), with the clock of               *)
(* sm_platform_weak.c.  Every C function is an operator from the program's *)
(* globals (a "world" record) to the globals after the call and the value  *)
(* returned; every public operation is one action.                         *)
(***************************************************************************)
EXTENDS Integers, Sequences, FiniteSets, TLC

\* ---------------------------------------------------------------------------
\* Enumerations of sm_types.h
\* ---------------------------------------------------------------------------
STATE_INIT == 0
STATE_IDLE == 1
STATE_ACTIVE == 2
STATE_PROCESSING == 3
STATE_COMMUNICATING == 4
STATE_MONITORING == 5
STATE_CALIBRATING == 6
STATE_DIAGNOSTICS == 7
STATE_RECOVERY == 8
STATE_CRITICAL_ERROR == 9
STATE_MAX == 10

EVENT_NONE == 0
EVENT_INIT_COMPLETE == 1
EVENT_START == 2
EVENT_STOP == 3
EVENT_DATA_READY == 4
EVENT_PROCESSING_DONE == 5
EVENT_COMM_REQUEST == 6
EVENT_COMM_COMPLETE == 7
EVENT_TIMEOUT == 8
EVENT_ERROR_MINOR == 9
EVENT_ERROR_NORMAL == 10
EVENT_ERROR_CRITICAL == 11
EVENT_RECOVERY_SUCCESS == 12
EVENT_RECOVERY_FAILED == 13
EVENT_MAX == 14

ERROR_LEVEL_NONE == 0
ERROR_LEVEL_MINOR == 1
ERROR_LEVEL_NORMAL == 2
ERROR_LEVEL_CRITICAL == 3
ERROR_LEVEL_MAX == 4

ERROR_CODE_NONE == 0
ERROR_CODE_TIMEOUT == 1
ERROR_CODE_COMM_LOST == 2
ERROR_CODE_HARDWARE_FAULT == 8
ERROR_CODE_MAX == 11

\* ---------------------------------------------------------------------------
\* Configuration of sm_config.h and the constants local to the state hooks
\* ---------------------------------------------------------------------------
SM_MAX_TRANSITIONS_PER_STATE == 5
SM_STATE_TIMEOUT_MS == 5000
ERROR_MAX_RECOVERY_ATTEMPTS == 3
ERROR_MINOR_TIMEOUT_MS == 50
COMM_TIMEOUT_MS == 100
COMM_VERIFICATION_COUNT == 3
COMM_VERIFICATION_WINDOW_MS == 50
PROCESSING_TIMEOUT_MS == 3000
CALIBRATING_TIMEOUT_MS == 5000
DIAGNOSTICS_TIMEOUT_MS == 2000
RECOVERY_TIMEOUT_MS == 2000
INIT_REQUIRED_STEPS == 5
PROCESSING_CYCLES == 20
COMM_CYCLES == 8
CALIBRATION_CYCLES == 30
DIAGNOSTIC_CYCLES == 15
UINT8_MOD == 256
ERROR_HISTORY_SIZE == 16

\* ---------------------------------------------------------------------------
\* Bounds of the model
\* ---------------------------------------------------------------------------
\* The millisecond clock is a uint32_t; it is modelled modulo ClockMod.
ClockMod == 65536
\* The clock is not advanced past MaxTime.
MaxTime == 5000
\* StateMachine_Execute is not called once the execution counter of the
\* current visit has reached MaxExec.
MaxExec == 5
\* No recovery attempt is made once retry_count has reached MaxRetry.
MaxRetry == 4
\* The channel probe is not called once good_message_count has reached MaxGood.
MaxGood == 4
\* ErrorHandler_Report is called at most MaxReports times after a
\* StateMachine_Init, and at most MaxLogged times in the runs that fill the
\* history ring past its capacity.
MaxReports == 1
MaxLogged == 17
\* At most MaxIsr interrupt-context posts are made from the beginning of one
\* main-loop post to the beginning of the next.
MaxIsr == 2
\* In the runs about the clock's wraparound the clock stays within MaxWrap
\* milliseconds of the wrap, on either side of it.
MaxWrap == 3
\* In the runs about MINOR reports, ErrorHandler_Report is called at most
\* MaxMinorReports times.
MaxMinorReports == 2

States == STATE_INIT .. (STATE_MAX - 1)
ValidEvents == (EVENT_NONE + 1) .. (EVENT_MAX - 1)

VARIABLES
    g_sm_context,          \* StateMachineContext_t g_sm_context
    g_state_table,         \* StateConfig_t g_state_table[SM_MAX_STATES]
    g_state_data,          \* g_state_data {init_step_count, comm_started}
    g_comm_verification,   \* g_comm_verification of sm_error_handler.c
    g_recovery_handlers,   \* g_recovery_handlers[ERROR_CODE_MAX] of sm_error_handler.c
    now,                   \* the value Platform_GetTimeMs() returns
    call,                  \* the StateMachine_PostEvent call under way on the main loop
    last,                  \* history: the operation last called and what it returned
    ghost                  \* history: facts about the run that the program does not store

vars == <<g_sm_context, g_state_table, g_state_data, g_comm_verification, g_recovery_handlers, now, call, last, ghost>>

\* The globals as one value, and the hooks the call under way has run so far
\* (hooks: the calls made through on_entry, on_state and on_exit, in order)
World ==
    [ctx |-> g_sm_context, table |-> g_state_table, data |-> g_state_data, comm |-> g_comm_verification,
     handlers |-> g_recovery_handlers, hooks |-> << >>]

\* uint32_t subtraction a - b on the modelled clock
SubU32(a, b) == (a - b + ClockMod) % ClockMod

\* ---------------------------------------------------------------------------
\* sm_platform_weak.c
\* ---------------------------------------------------------------------------
Platform_IsTimeout(t, start_time_ms, timeout_ms) ==
    IF t >= start_time_ms
    THEN (t - start_time_ms) >= timeout_ms
    ELSE ((ClockMod - 1 - start_time_ms) + t) >= timeout_ms

\* ---------------------------------------------------------------------------
\* sm_state_machine.c: the transition table
\* ---------------------------------------------------------------------------
Rule(e, s) == [event |-> e, next_state |-> s]

\* Variant: the rule count of a state is one short of the rules written
StateConfig_ShortCount(rules, timeout) ==
    [transitions |-> rules, transition_count |-> Len(rules) - 1, timeout_ms |-> timeout]

StateConfig(rules, timeout) == [transitions |-> rules, transition_count |-> Len(rules), timeout_ms |-> timeout]

\* Variant: Recovery has no rule
InitializeStateTable_RecoveryTrap ==
    [s \in States |->
      CASE s = STATE_INIT ->
             StateConfig(<<Rule(EVENT_INIT_COMPLETE, STATE_IDLE),
                           Rule(EVENT_ERROR_NORMAL, STATE_RECOVERY),
                           Rule(EVENT_ERROR_CRITICAL, STATE_CRITICAL_ERROR),
                           Rule(EVENT_TIMEOUT, STATE_RECOVERY)>>, SM_STATE_TIMEOUT_MS)
        [] s = STATE_IDLE ->
             StateConfig(<<Rule(EVENT_START, STATE_ACTIVE),
                           Rule(EVENT_ERROR_NORMAL, STATE_RECOVERY),
                           Rule(EVENT_ERROR_CRITICAL, STATE_CRITICAL_ERROR)>>, 0)
        [] s = STATE_ACTIVE ->
             StateConfig(<<Rule(EVENT_DATA_READY, STATE_PROCESSING),
                           Rule(EVENT_STOP, STATE_IDLE),
                           Rule(EVENT_ERROR_NORMAL, STATE_RECOVERY),
                           Rule(EVENT_ERROR_CRITICAL, STATE_CRITICAL_ERROR)>>, 0)
        [] OTHER ->
             StateConfig(<< >>, 0)]

InitializeStateTable ==
    [s \in States |->
      CASE s = STATE_INIT ->
             StateConfig(<<Rule(EVENT_INIT_COMPLETE, STATE_IDLE),
                           Rule(EVENT_ERROR_NORMAL, STATE_RECOVERY),
                           Rule(EVENT_ERROR_CRITICAL, STATE_CRITICAL_ERROR),
                           Rule(EVENT_TIMEOUT, STATE_RECOVERY)>>, SM_STATE_TIMEOUT_MS)
        [] s = STATE_IDLE ->
             StateConfig(<<Rule(EVENT_START, STATE_ACTIVE),
                           Rule(EVENT_ERROR_NORMAL, STATE_RECOVERY),
                           Rule(EVENT_ERROR_CRITICAL, STATE_CRITICAL_ERROR)>>, 0)
        [] s = STATE_ACTIVE ->
             StateConfig(<<Rule(EVENT_DATA_READY, STATE_PROCESSING),
                           Rule(EVENT_STOP, STATE_IDLE),
                           Rule(EVENT_ERROR_NORMAL, STATE_RECOVERY),
                           Rule(EVENT_ERROR_CRITICAL, STATE_CRITICAL_ERROR)>>, 0)
        [] s = STATE_PROCESSING ->
             StateConfig(<<Rule(EVENT_PROCESSING_DONE, STATE_COMMUNICATING),
                           Rule(EVENT_TIMEOUT, STATE_RECOVERY),
                           Rule(EVENT_ERROR_NORMAL, STATE_RECOVERY),
                           Rule(EVENT_ERROR_CRITICAL, STATE_CRITICAL_ERROR)>>, PROCESSING_TIMEOUT_MS)
        [] s = STATE_COMMUNICATING ->
             StateConfig(<<Rule(EVENT_COMM_COMPLETE, STATE_MONITORING),
                           Rule(EVENT_TIMEOUT, STATE_RECOVERY),
                           Rule(EVENT_ERROR_NORMAL, STATE_RECOVERY),
                           Rule(EVENT_ERROR_CRITICAL, STATE_CRITICAL_ERROR)>>, COMM_TIMEOUT_MS)
        [] s = STATE_MONITORING ->
             StateConfig(<<Rule(EVENT_STOP, STATE_IDLE),
                           Rule(EVENT_DATA_READY, STATE_PROCESSING),
                           Rule(EVENT_ERROR_NORMAL, STATE_RECOVERY),
                           Rule(EVENT_ERROR_CRITICAL, STATE_CRITICAL_ERROR)>>, 0)
        [] s = STATE_CALIBRATING ->
             StateConfig(<<Rule(EVENT_PROCESSING_DONE, STATE_DIAGNOSTICS),
                           Rule(EVENT_TIMEOUT, STATE_RECOVERY),
                           Rule(EVENT_ERROR_NORMAL, STATE_RECOVERY),
                           Rule(EVENT_ERROR_CRITICAL, STATE_CRITICAL_ERROR)>>, CALIBRATING_TIMEOUT_MS)
        [] s = STATE_DIAGNOSTICS ->
             StateConfig(<<Rule(EVENT_PROCESSING_DONE, STATE_ACTIVE),
                           Rule(EVENT_TIMEOUT, STATE_RECOVERY),
                           Rule(EVENT_ERROR_NORMAL, STATE_RECOVERY),
                           Rule(EVENT_ERROR_CRITICAL, STATE_CRITICAL_ERROR)>>, DIAGNOSTICS_TIMEOUT_MS)
        [] s = STATE_RECOVERY ->
             StateConfig(<<Rule(EVENT_RECOVERY_SUCCESS, STATE_IDLE),
                           Rule(EVENT_RECOVERY_FAILED, STATE_CRITICAL_ERROR),
                           Rule(EVENT_TIMEOUT, STATE_CRITICAL_ERROR),
                           Rule(EVENT_ERROR_CRITICAL, STATE_CRITICAL_ERROR)>>, RECOVERY_TIMEOUT_MS)
        [] OTHER ->
             StateConfig(<< >>, 0)]

\* A call's outcome: the globals after it and the value it returned
Result(w, r) == [w |-> w, ret |-> r]

\* ---------------------------------------------------------------------------
\* sm_state_machine.c: StateMachine_PostEvent
\* ---------------------------------------------------------------------------
\* Variant: the range test lets EVENT_MAX through
StateMachine_PostEvent_AcceptMax(w, event) ==
    IF event > EVENT_MAX \/ event = EVENT_NONE
    THEN Result(w, FALSE)
    ELSE IF w.ctx.pending_event # EVENT_NONE
         THEN Result(w, FALSE)
         ELSE Result([w EXCEPT !.ctx.pending_event = event], TRUE)

\* Variant: the occupied-slot test is missing, a later post overwrites the slot
StateMachine_PostEvent_Overwrite(w, event) ==
    IF event >= EVENT_MAX \/ event = EVENT_NONE
    THEN Result(w, FALSE)
    ELSE Result([w EXCEPT !.ctx.pending_event = event], TRUE)

StateMachine_PostEvent(w, event) ==
    IF event >= EVENT_MAX \/ event = EVENT_NONE
    THEN Result(w, FALSE)
    ELSE IF w.ctx.pending_event # EVENT_NONE
         THEN Result(w, FALSE)
         ELSE Result([w EXCEPT !.ctx.pending_event = event], TRUE)

\* ---------------------------------------------------------------------------
\* sm_error_handler.c
\* ---------------------------------------------------------------------------
\* ErrorInfo_t of the current-error slot.  Its timestamp and state fields are
\* written by the handlers and read by no function of the engine or the error
\* handler (ErrorHandler_GetCurrentError only copies them out); they are not
\* part of the modelled record.
ErrorInfo(level, code, retry_count, is_recovered) ==
    [level |-> level, code |-> code, retry_count |-> retry_count, is_recovered |-> is_recovered]

\* ErrorInfo_t of a record of the history ring, with all its fields
HistoryInfo(level, code, timestamp, state) ==
    [level |-> level, code |-> code, timestamp |-> timestamp, state |-> state,
     retry_count |-> 0, is_recovered |-> FALSE]

ErrorHandler_Init ==
    [current_error |-> ErrorInfo(ERROR_LEVEL_NONE, ERROR_CODE_NONE, 0, FALSE),
     error_history |-> [i \in 0 .. (ERROR_HISTORY_SIZE - 1) |-> HistoryInfo(0, 0, 0, 0)],
     history_index |-> 0,
     minor_error_timestamp |-> 0,
     minor_good_message_count |-> 0,
     critical_lock_active |-> FALSE]

AddErrorToHistory(w, error_info) ==
    [w EXCEPT !.ctx.error_handler.error_history[w.ctx.error_handler.history_index] = error_info,
              !.ctx.error_handler.history_index = (@ + 1) % ERROR_HISTORY_SIZE]

\* Variant: the read index is not moved back by one from the write index
ErrorHandler_GetHistoryError_FromWriteIndex(w, index) ==
    IF index >= ERROR_HISTORY_SIZE
    THEN [ret |-> FALSE, error_info |-> HistoryInfo(0, 0, 0, 0)]
    ELSE LET actual_index == (w.ctx.error_handler.history_index + ERROR_HISTORY_SIZE - index)
                                 % ERROR_HISTORY_SIZE
         IN  [ret |-> TRUE, error_info |-> w.ctx.error_handler.error_history[actual_index]]

\* ret: the value returned; error_info: the record copied out when ret is TRUE
ErrorHandler_GetHistoryError(w, index) ==
    IF index >= ERROR_HISTORY_SIZE
    THEN [ret |-> FALSE, error_info |-> HistoryInfo(0, 0, 0, 0)]
    ELSE LET actual_index == (w.ctx.error_handler.history_index + ERROR_HISTORY_SIZE - index - 1)
                                 % ERROR_HISTORY_SIZE
         IN  [ret |-> TRUE, error_info |-> w.ctx.error_handler.error_history[actual_index]]

ErrorHandler_GetHistoryCount(w) == ERROR_HISTORY_SIZE

CommVerification_Init == [window_start_time |-> 0, good_message_count |-> 0, is_verified |-> FALSE]

\* g_recovery_handlers after the memset of ErrorHandler_Init.  A handler is
\* application code that returns a bool: "succeed" returns true, "fail" false.
RecoveryHandlers_Init == [code \in 0 .. (ERROR_CODE_MAX - 1) |-> "NULL"]

ErrorHandler_RegisterRecoveryHandler(w, code, handler) ==
    IF code >= ERROR_CODE_MAX
    THEN Result(w, FALSE)
    ELSE Result([w EXCEPT !.handlers[code] = handler], TRUE)

\* Variant: the window is closed already at COMM_VERIFICATION_WINDOW_MS
ErrorHandler_VerifyCommChannel_Strict(w, t) ==
    IF SubU32(t, w.comm.window_start_time) < COMM_VERIFICATION_WINDOW_MS
    THEN LET n == (w.comm.good_message_count + 1) % UINT8_MOD
             w1 == [w EXCEPT !.comm.good_message_count = n]
         IN  IF n >= COMM_VERIFICATION_COUNT
             THEN Result([w1 EXCEPT !.comm.is_verified = TRUE], TRUE)
             ELSE Result(w1, FALSE)
    ELSE Result([w EXCEPT !.comm.window_start_time = t, !.comm.good_message_count = 1], FALSE)

ErrorHandler_VerifyCommChannel(w, t) ==
    IF SubU32(t, w.comm.window_start_time) <= COMM_VERIFICATION_WINDOW_MS
    THEN LET n == (w.comm.good_message_count + 1) % UINT8_MOD
             w1 == [w EXCEPT !.comm.good_message_count = n]
         IN  IF n >= COMM_VERIFICATION_COUNT
             THEN Result([w1 EXCEPT !.comm.is_verified = TRUE], TRUE)
             ELSE Result(w1, FALSE)
    ELSE Result([w EXCEPT !.comm.window_start_time = t, !.comm.good_message_count = 1], FALSE)

ErrorHandler_HandleNormalError(w, code) ==
    LET w1 == [w EXCEPT !.ctx.error_handler.current_error =
                            ErrorInfo(ERROR_LEVEL_NORMAL, code, 0, FALSE)]
    IN  Result(StateMachine_PostEvent(w1, EVENT_ERROR_NORMAL).w, TRUE)

\* Variant: the handler moves the machine to STATE_CRITICAL_ERROR itself
ErrorHandler_HandleCriticalError_Direct(w, code) ==
    LET w1 == [w EXCEPT !.ctx.error_handler.current_error =
                            ErrorInfo(ERROR_LEVEL_CRITICAL, code, 0, FALSE),
                        !.ctx.error_handler.critical_lock_active = TRUE,
                        !.ctx.previous_state = w.ctx.current_state,
                        !.ctx.current_state = STATE_CRITICAL_ERROR,
                        !.ctx.state_changed = TRUE]
    IN  StateMachine_PostEvent(w1, EVENT_ERROR_CRITICAL).w

\* Variant: the handler relies on the ERROR_CRITICAL event alone and sets no lock
ErrorHandler_HandleCriticalError_NoLock(w, code) ==
    LET w1 == [w EXCEPT !.ctx.error_handler.current_error =
                            ErrorInfo(ERROR_LEVEL_CRITICAL, code, 0, FALSE)]
    IN  StateMachine_PostEvent(w1, EVENT_ERROR_CRITICAL).w

ErrorHandler_HandleCriticalError(w, code) ==
    LET w1 == [w EXCEPT !.ctx.error_handler.current_error =
                            ErrorInfo(ERROR_LEVEL_CRITICAL, code, 0, FALSE),
                        !.ctx.error_handler.critical_lock_active = TRUE]
    IN  StateMachine_PostEvent(w1, EVENT_ERROR_CRITICAL).w

ErrorHandler_HandleMinorError(w, t, code) ==
    LET w1 == IF w.ctx.error_handler.minor_error_timestamp = 0
              THEN [w EXCEPT !.ctx.error_handler.minor_error_timestamp = t,
                             !.ctx.error_handler.minor_good_message_count = 0]
              ELSE w
    IN  IF SubU32(t, w1.ctx.error_handler.minor_error_timestamp) <= ERROR_MINOR_TIMEOUT_MS
        THEN LET v == ErrorHandler_VerifyCommChannel(w1, t)
                 n == (v.w.ctx.error_handler.minor_good_message_count + 1) % UINT8_MOD
             IN  IF v.ret
                 THEN IF n >= COMM_VERIFICATION_COUNT
                      THEN Result([v.w EXCEPT !.ctx.error_handler.minor_error_timestamp = 0,
                                              !.ctx.error_handler.minor_good_message_count = 0], TRUE)
                      ELSE Result([v.w EXCEPT !.ctx.error_handler.minor_good_message_count = n], TRUE)
                 ELSE Result(v.w, TRUE)
        ELSE ErrorHandler_HandleNormalError(w1, code)

\* Variant: the level is validated first, an invalid one is rejected unlogged
ErrorHandler_Report_ValidateFirst(w, t, level, code) ==
    LET w1 == AddErrorToHistory(w, HistoryInfo(level, code, t, w.ctx.current_state))
    IN  CASE level = ERROR_LEVEL_MINOR -> ErrorHandler_HandleMinorError(w1, t, code)
          [] level = ERROR_LEVEL_NORMAL -> ErrorHandler_HandleNormalError(w1, code)
          [] level = ERROR_LEVEL_CRITICAL -> Result(ErrorHandler_HandleCriticalError(w1, code), TRUE)
          [] OTHER -> Result(w, FALSE)

ErrorHandler_Report(w, t, level, code) ==
    LET w1 == AddErrorToHistory(w, HistoryInfo(level, code, t, w.ctx.current_state))
    IN  CASE level = ERROR_LEVEL_MINOR -> ErrorHandler_HandleMinorError(w1, t, code)
          [] level = ERROR_LEVEL_NORMAL -> ErrorHandler_HandleNormalError(w1, code)
          [] level = ERROR_LEVEL_CRITICAL -> Result(ErrorHandler_HandleCriticalError(w1, code), TRUE)
          [] OTHER -> Result(w1, FALSE)

\* Variant: the default logic retries every code optimistically
ErrorHandler_AttemptRecovery_Optimistic(w, t) ==
    IF w.ctx.error_handler.current_error.level = ERROR_LEVEL_NONE
    THEN Result(w, TRUE)
    ELSE LET n == (w.ctx.error_handler.current_error.retry_count + 1) % UINT8_MOD
             w1 == [w EXCEPT !.ctx.error_handler.current_error.retry_count = n]
             code == w.ctx.error_handler.current_error.code
         IN  IF n >= ERROR_MAX_RECOVERY_ATTEMPTS
             THEN Result(w1, FALSE)
             ELSE CASE w.handlers[code] # "NULL" -> Result(w1, w.handlers[code] = "succeed")
                    [] code = ERROR_CODE_COMM_LOST ->
                         LET v == ErrorHandler_VerifyCommChannel(w1, t)
                         IN  IF v.ret
                             THEN Result([v.w EXCEPT !.ctx.error_handler.current_error.is_recovered = TRUE], TRUE)
                             ELSE Result(v.w, FALSE)
                    [] OTHER ->
                         Result([w1 EXCEPT !.ctx.error_handler.current_error.is_recovered = TRUE], TRUE)

\* A custom handler registered for the code of the current error (lines
\* 150-152) is called instead of the default recovery logic.
ErrorHandler_AttemptRecovery(w, t) ==
    IF w.ctx.error_handler.current_error.level = ERROR_LEVEL_NONE
    THEN Result(w, TRUE)
    ELSE LET n == (w.ctx.error_handler.current_error.retry_count + 1) % UINT8_MOD
             w1 == [w EXCEPT !.ctx.error_handler.current_error.retry_count = n]
             code == w.ctx.error_handler.current_error.code
         IN  IF n >= ERROR_MAX_RECOVERY_ATTEMPTS
             THEN Result(w1, FALSE)
             ELSE CASE w.handlers[code] # "NULL" -> Result(w1, w.handlers[code] = "succeed")
                    [] code = ERROR_CODE_COMM_LOST ->
                         LET v == ErrorHandler_VerifyCommChannel(w1, t)
                         IN  IF v.ret
                             THEN Result([v.w EXCEPT !.ctx.error_handler.current_error.is_recovered = TRUE], TRUE)
                             ELSE Result(v.w, FALSE)
                    [] code = ERROR_CODE_TIMEOUT ->
                         Result([w1 EXCEPT !.ctx.error_handler.current_error.is_recovered = TRUE], TRUE)
                    [] OTHER -> Result(w1, FALSE)

\* Variant: clearing the error resets the whole handler, the lock included
ErrorHandler_ClearError_All(w) ==
    [w EXCEPT !.ctx.error_handler.current_error.level = ERROR_LEVEL_NONE,
              !.ctx.error_handler.current_error.code = ERROR_CODE_NONE,
              !.ctx.error_handler.current_error.retry_count = 0,
              !.ctx.error_handler.critical_lock_active = FALSE]

ErrorHandler_ClearError(w) ==
    [w EXCEPT !.ctx.error_handler.current_error.level = ERROR_LEVEL_NONE,
              !.ctx.error_handler.current_error.code = ERROR_CODE_NONE,
              !.ctx.error_handler.current_error.retry_count = 0]

ErrorHandler_IsCriticalLock(w) == w.ctx.error_handler.critical_lock_active

\* ---------------------------------------------------------------------------
\* sm_state_machine.c: the state hooks
\* ---------------------------------------------------------------------------
\* Variant: INIT_COMPLETE is posted once the step count has passed the required steps
State_Init_OnState_Late(w) ==
    LET w1 == [w EXCEPT !.data.init_step_count = @ + 1]
    IN  IF w1.data.init_step_count > INIT_REQUIRED_STEPS
        THEN StateMachine_PostEvent(w1, EVENT_INIT_COMPLETE).w
        ELSE w1

State_Init_OnState(w) ==
    LET w1 == [w EXCEPT !.data.init_step_count = @ + 1]
    IN  IF w1.data.init_step_count >= INIT_REQUIRED_STEPS
        THEN StateMachine_PostEvent(w1, EVENT_INIT_COMPLETE).w
        ELSE w1

State_Processing_OnState(w) ==
    IF w.ctx.state_execution_count >= PROCESSING_CYCLES
    THEN StateMachine_PostEvent(w, EVENT_PROCESSING_DONE).w
    ELSE w

State_Communicating_OnState(w, t) ==
    LET w1 == [w EXCEPT !.data.comm_started = TRUE]
    IN  IF w1.ctx.state_execution_count >= COMM_CYCLES
        THEN LET v == ErrorHandler_VerifyCommChannel(w1, t)
             IN  IF v.ret THEN StateMachine_PostEvent(v.w, EVENT_COMM_COMPLETE).w ELSE v.w
        ELSE w1

State_Calibrating_OnState(w) ==
    IF w.ctx.state_execution_count >= CALIBRATION_CYCLES
    THEN StateMachine_PostEvent(w, EVENT_PROCESSING_DONE).w
    ELSE w

State_Diagnostics_OnState(w) ==
    IF w.ctx.state_execution_count >= DIAGNOSTIC_CYCLES
    THEN StateMachine_PostEvent(w, EVENT_PROCESSING_DONE).w
    ELSE w

\* Variant: a failed attempt posts nothing, whatever the retry count
State_Recovery_OnState_NoEscalation(w, t) ==
    LET r == ErrorHandler_AttemptRecovery(w, t)
    IN  IF r.ret
        THEN StateMachine_PostEvent(ErrorHandler_ClearError(r.w), EVENT_RECOVERY_SUCCESS).w
        ELSE r.w

State_Recovery_OnState(w, t) ==
    LET r == ErrorHandler_AttemptRecovery(w, t)
    IN  IF r.ret
        THEN StateMachine_PostEvent(ErrorHandler_ClearError(r.w), EVENT_RECOVERY_SUCCESS).w
        ELSE IF r.w.ctx.error_handler.current_error.retry_count >= ERROR_MAX_RECOVERY_ATTEMPTS
             THEN StateMachine_PostEvent(r.w, EVENT_RECOVERY_FAILED).w
             ELSE r.w

\* A call through a hook pointer of g_state_table[s] (every state of the built
\* table has its three hooks)
HookCall(w, hook, s) == [w EXCEPT !.hooks = Append(@, <<hook, s>>)]

\* g_state_table[s].on_entry
OnEntry(w, s) ==
    LET w0 == HookCall(w, "on_entry", s)
    IN  CASE s = STATE_INIT -> [w0 EXCEPT !.data.init_step_count = 0]
          [] s = STATE_COMMUNICATING -> [w0 EXCEPT !.data.comm_started = FALSE]
          [] OTHER -> w0

\* g_state_table[s].on_state
OnState(w, s, t) ==
    LET w0 == HookCall(w, "on_state", s)
    IN  CASE s = STATE_INIT -> State_Init_OnState(w0)
          [] s = STATE_PROCESSING -> State_Processing_OnState(w0)
          [] s = STATE_COMMUNICATING -> State_Communicating_OnState(w0, t)
          [] s = STATE_CALIBRATING -> State_Calibrating_OnState(w0)
          [] s = STATE_DIAGNOSTICS -> State_Diagnostics_OnState(w0)
          [] s = STATE_RECOVERY -> State_Recovery_OnState(w0, t)
          [] OTHER -> w0

\* g_state_table[s].on_exit
OnExit(w, s) ==
    LET w0 == HookCall(w, "on_exit", s)
    IN  CASE s = STATE_COMMUNICATING -> [w0 EXCEPT !.data.comm_started = FALSE]
          [] OTHER -> w0

\* ---------------------------------------------------------------------------
\* sm_state_machine.c: transitions
\* ---------------------------------------------------------------------------
PerformStateTransition(w, new_state) ==
    IF new_state >= STATE_MAX
    THEN w
    ELSE LET w1 == OnExit(w, w.ctx.current_state)
         IN  [w1 EXCEPT !.ctx.previous_state = w1.ctx.current_state,
                        !.ctx.current_state = new_state,
                        !.ctx.state_changed = TRUE]

\* The for loop of CheckStateTransition, from index i (1-based)
RECURSIVE SearchTransition(_, _, _)
SearchTransition(config, i, event) ==
    IF i > config.transition_count
    THEN [ret |-> FALSE, next_state |-> STATE_MAX]
    ELSE IF config.transitions[i].event = event
         THEN [ret |-> TRUE, next_state |-> config.transitions[i].next_state]
         ELSE SearchTransition(config, i + 1, event)

\* Variant: the last matching rule of the list wins
CheckStateTransition_LastMatch(w, event) ==
    LET config == w.table[w.ctx.current_state]
        matches == {i \in 1 .. config.transition_count : config.transitions[i].event = event}
    IN  IF matches = {}
        THEN [ret |-> FALSE, next_state |-> STATE_MAX]
        ELSE LET last_match == CHOOSE i \in matches : \A j \in matches : j <= i
             IN  [ret |-> TRUE, next_state |-> config.transitions[last_match].next_state]

CheckStateTransition(w, event) == SearchTransition(w.table[w.ctx.current_state], 1, event)

\* ---------------------------------------------------------------------------
\* sm_state_machine.c: StateMachine_Execute, by the steps of its body
\* ---------------------------------------------------------------------------
\* lines 151-159: on-entry hook on the first tick after a transition
ExecuteEntry(w, t) ==
    IF w.ctx.state_changed
    THEN [OnEntry(w, w.ctx.current_state) EXCEPT !.ctx.state_changed = FALSE,
                                                  !.ctx.state_entry_time = t,
                                                  !.ctx.state_execution_count = 0]
    ELSE w

\* lines 161-165: on-tick hook, then the execution counter
ExecuteOnState(w, t) ==
    [OnState(w, w.ctx.current_state, t) EXCEPT !.ctx.state_execution_count = @ + 1]

\* Variant: the timeout fires only after more than timeout_ms
TimeoutElapsed_Strict(w, t) ==
    /\ w.table[w.ctx.current_state].timeout_ms > 0
    /\ SubU32(t, w.ctx.state_entry_time) > w.table[w.ctx.current_state].timeout_ms

\* lines 167-178: whether the state timeout fires on this tick
TimeoutElapsed(w, t) ==
    /\ w.table[w.ctx.current_state].timeout_ms > 0
    /\ Platform_IsTimeout(t, w.ctx.state_entry_time, w.table[w.ctx.current_state].timeout_ms)

\* Variant: an elapsed timeout writes EVENT_TIMEOUT into the slot whatever it holds
ExecuteTimeout_Override(w, t) ==
    IF TimeoutElapsed(w, t)
    THEN Result([w EXCEPT !.ctx.pending_event = EVENT_TIMEOUT], TRUE)
    ELSE Result(w, FALSE)

ExecuteTimeout(w, t) ==
    IF TimeoutElapsed(w, t) THEN StateMachine_PostEvent(w, EVENT_TIMEOUT) ELSE Result(w, FALSE)

\* Variant: the slot is cleared only when a rule matched
ExecuteEvent_KeepUnmatched(w) ==
    IF w.ctx.pending_event # EVENT_NONE
    THEN LET c == CheckStateTransition(w, w.ctx.pending_event)
         IN  IF c.ret
             THEN [PerformStateTransition(w, c.next_state) EXCEPT !.ctx.pending_event = EVENT_NONE]
             ELSE w
    ELSE w

\* lines 180-190: dispatch of the pending event
ExecuteEvent(w) ==
    IF w.ctx.pending_event # EVENT_NONE
    THEN LET c == CheckStateTransition(w, w.ctx.pending_event)
             w1 == IF c.ret THEN PerformStateTransition(w, c.next_state) ELSE w
         IN  [w1 EXCEPT !.ctx.pending_event = EVENT_NONE]
    ELSE w

\* The globals when the tick reaches the dispatch of the pending event
ExecuteBeforeEvent(w, t) == ExecuteTimeout(ExecuteOnState(ExecuteEntry(w, t), t), t)

\* Variant: the tick under lock empties the slot before it returns
ExecuteLocked_ClearSlot(w) ==
    IF w.ctx.current_state # STATE_CRITICAL_ERROR
    THEN [PerformStateTransition(w, STATE_CRITICAL_ERROR) EXCEPT !.ctx.pending_event = EVENT_NONE]
    ELSE [w EXCEPT !.ctx.pending_event = EVENT_NONE]

\* lines 141-147: the critical lock forces STATE_CRITICAL_ERROR
ExecuteLocked(w) ==
    IF w.ctx.current_state # STATE_CRITICAL_ERROR
    THEN PerformStateTransition(w, STATE_CRITICAL_ERROR)
    ELSE w

StateMachine_Execute(w, t) ==
    LET wf == IF w.ctx.error_handler.critical_lock_active
              THEN ExecuteLocked(w)
              ELSE ExecuteEvent(ExecuteBeforeEvent(w, t).w)
    IN  Result(wf, wf.ctx.current_state)

\* Variant: the reset is performed whether or not the critical lock is active
StateMachine_Reset_Unchecked(w) ==
    LET w1 == [ErrorHandler_ClearError(w) EXCEPT !.data = [init_step_count |-> 0, comm_started |-> FALSE]]
    IN  PerformStateTransition(w1, STATE_INIT)

\* Variant: the reset jumps to STATE_INIT without clearing the error and the
\* state data
StateMachine_Reset_KeepError(w) ==
    IF w.ctx.error_handler.critical_lock_active
    THEN w
    ELSE PerformStateTransition(w, STATE_INIT)

\* Variant: the reset also empties the pending-event slot
StateMachine_Reset_ClearSlot(w) ==
    IF w.ctx.error_handler.critical_lock_active
    THEN w
    ELSE LET w1 == [ErrorHandler_ClearError(w) EXCEPT !.data = [init_step_count |-> 0, comm_started |-> FALSE],
                                                      !.ctx.pending_event = EVENT_NONE]
         IN  PerformStateTransition(w1, STATE_INIT)

StateMachine_Reset(w) ==
    IF w.ctx.error_handler.critical_lock_active
    THEN w
    ELSE LET w1 == [ErrorHandler_ClearError(w) EXCEPT !.data = [init_step_count |-> 0, comm_started |-> FALSE]]
         IN  PerformStateTransition(w1, STATE_INIT)

StateMachine_GetExecutionCount(w) == w.ctx.state_execution_count

\* transitions[transition_count] = rule; transition_count++ (the rule list is a
\* sequence, the array's slot transition_count is its element
\* transition_count + 1)
WriteRule(config, rule) ==
    [config EXCEPT !.transitions = [i \in 1 .. (IF Len(@) > config.transition_count
                                                THEN Len(@)
                                                ELSE config.transition_count + 1) |->
                                       IF i = config.transition_count + 1 THEN rule ELSE @[i]],
                   !.transition_count = @ + 1]

\* Variant: the rule list is not tested for being full
StateMachine_AddTransition_Unbounded(w, state, event, next_state) ==
    IF state >= STATE_MAX \/ event >= EVENT_MAX \/ next_state >= STATE_MAX
    THEN Result(w, FALSE)
    ELSE Result([w EXCEPT !.table[state] = WriteRule(@, Rule(event, next_state))], TRUE)

StateMachine_AddTransition(w, state, event, next_state) ==
    IF state >= STATE_MAX \/ event >= EVENT_MAX \/ next_state >= STATE_MAX
    THEN Result(w, FALSE)
    ELSE IF w.table[state].transition_count >= SM_MAX_TRANSITIONS_PER_STATE
         THEN Result(w, FALSE)
         ELSE Result([w EXCEPT !.table[state] = WriteRule(@, Rule(event, next_state))], TRUE)

\* Variant: initialization leaves the state-changed flag set, as a transition
\* to Init would
StateMachine_Init_AsTransition(t) ==
    [ctx |-> [current_state |-> STATE_INIT,
              previous_state |-> STATE_INIT,
              pending_event |-> EVENT_NONE,
              state_entry_time |-> t,
              state_execution_count |-> 0,
              state_changed |-> TRUE,
              error_handler |-> ErrorHandler_Init],
     table |-> InitializeStateTable,
     data |-> [init_step_count |-> 0, comm_started |-> FALSE],
     comm |-> CommVerification_Init,
     handlers |-> RecoveryHandlers_Init,
     hooks |-> << >>]

StateMachine_Init(t) ==
    [ctx |-> [current_state |-> STATE_INIT,
              previous_state |-> STATE_INIT,
              pending_event |-> EVENT_NONE,
              state_entry_time |-> t,
              state_execution_count |-> 0,
              state_changed |-> FALSE,
              error_handler |-> ErrorHandler_Init],
     table |-> InitializeStateTable,
     data |-> [init_step_count |-> 0, comm_started |-> FALSE],
     comm |-> CommVerification_Init,
     handlers |-> RecoveryHandlers_Init,
     hooks |-> << >>]

\* ---------------------------------------------------------------------------
\* The operations, as actions
\* ---------------------------------------------------------------------------
\* Events handed to StateMachine_PostEvent: every valid one, and the two invalid
\* values EVENT_NONE and EVENT_MAX
PostedEvents == EVENT_NONE .. EVENT_MAX

\* Events the application posts while errors are being reported: an invalid
\* one, one with a rule in Idle only, and one with a rule in Init and Recovery
PostedWithErrors == {EVENT_NONE, EVENT_START, EVENT_TIMEOUT}

\* Levels handed to ErrorHandler_Report
ReportedLevels == {ERROR_LEVEL_NORMAL, ERROR_LEVEL_CRITICAL}

\* Codes handed to ErrorHandler_Report: one the default recovery logic recovers
\* from and one it does not
ReportedCodes == {ERROR_CODE_TIMEOUT, ERROR_CODE_HARDWARE_FAULT}

\* Clock advances between operations: half the longest state timeout, so that
\* two steps reach it exactly
TimeStep == SM_STATE_TIMEOUT_MS \div 2
TimeSteps == {TimeStep}

Commit(w) ==
    /\ g_sm_context' = w.ctx
    /\ g_state_table' = w.table
    /\ g_state_data' = w.data
    /\ g_comm_verification' = w.comm
    /\ g_recovery_handlers' = w.handlers

\* The operation last called: op, the level reported (arg, for a report; 0
\* otherwise) and the value returned (ret).
Last(op, arg, ret) == [op |-> op, arg |-> arg, ret |-> ret]

\* critical_reported: ErrorHandler_Report(ERROR_LEVEL_CRITICAL, _) has been
\*   called since the last StateMachine_Init.
\* overdue: a tick of the current visit found the state timeout elapsed and the
\*   visit went on after it.
\* timeout_posted: the timeout check of the last tick posted EVENT_TIMEOUT and
\*   the post was accepted.
\* log: the records reported through ErrorHandler_Report since the last
\*   StateMachine_Init, oldest first.
\* hooks: the hooks run by the last call of StateMachine_Execute or
\*   StateMachine_Reset, in order.
\* tick_runs: how many times the on-tick hook of the current state has run since
\*   that state became the current one.
\* begin_slot: the pending-event slot when the last stepwise
\*   StateMachine_PostEvent call of the main loop began.
\* isr: the interrupt-context posts made since then, as pairs <<event, value
\*   returned>>, in order.
\* minor_window: whether a MINOR window is open (a MINOR error was handled
\*   since the last StateMachine_Init and the good-message threshold has not
\*   been reached since), and the clock value at which it was opened.
\* add: the arguments of the last call of StateMachine_AddTransition.
\* init_wiped: the last StateMachine_Init was called while the critical lock
\*   was active and the table held a rule that StateMachine_AddTransition added.
\* is_timeout: the last direct call of Platform_IsTimeout: the clock value it
\*   read (time), its arguments (start, timeout) and the value it returned (ret).
Ghost_Init ==
    [critical_reported |-> FALSE, overdue |-> FALSE, timeout_posted |-> FALSE, log |-> << >>,
     hooks |-> << >>, tick_runs |-> 0, begin_slot |-> EVENT_NONE, isr |-> << >>,
     is_timeout |-> [time |-> 0, start |-> 0, timeout |-> 0, ret |-> TRUE],
     minor_window |-> [open |-> FALSE, start |-> 0],
     add |-> [state |-> 0, event |-> 0, next_state |-> 0],
     init_wiped |-> FALSE]

\* minor_window after a call of ErrorHandler_HandleMinorError at clock value t
\* that took the world from w to w2: the first call opens the window, the call
\* that reaches the threshold (lines 83-89) closes it
MinorWindow(win, w, w2, t) ==
    LET opened == IF win.open THEN win ELSE [open |-> TRUE, start |-> t]
    IN  IF /\ w2.ctx.error_handler.minor_good_message_count = 0
           /\ w2.comm.is_verified
           /\ w2.comm.good_message_count # w.comm.good_message_count
           /\ w.ctx.error_handler.minor_good_message_count + 1 >= COMM_VERIFICATION_COUNT
           /\ w2.ctx.error_handler.current_error = w.ctx.error_handler.current_error
        THEN [open |-> FALSE, start |-> 0]
        ELSE opened

\* No StateMachine_PostEvent call is under way on the main loop.  pc is the
\* position of the call in its body, event its argument, result its local.
NoCall == [pc |-> "idle", event |-> EVENT_NONE, result |-> FALSE]

\* The number of calls of the named hook in a hook sequence
HookRuns(hooks, hook) == Cardinality({i \in 1 .. Len(hooks) : hooks[i][1] = hook})

\* tick_runs after a call that ran the given hooks: a transition (it runs an
\* on-exit hook, after the on-tick hook of the tick) starts a new count
TickRuns(n, hooks) ==
    IF HookRuns(hooks, "on_exit") > 0 THEN 0 ELSE n + HookRuns(hooks, "on_state")

Init ==
    /\ now = 0
    /\ g_sm_context = StateMachine_Init(0).ctx
    /\ g_state_table = StateMachine_Init(0).table
    /\ g_state_data = StateMachine_Init(0).data
    /\ g_comm_verification = StateMachine_Init(0).comm
    /\ g_recovery_handlers = StateMachine_Init(0).handlers
    /\ call = NoCall
    /\ last = Last("Init", 0, TRUE)
    /\ ghost = Ghost_Init

ReInit ==
    /\ Commit(StateMachine_Init(now))
    /\ last' = Last("Init", 0, TRUE)
    /\ ghost' = [Ghost_Init EXCEPT !.init_wiped = /\ ErrorHandler_IsCriticalLock(World)
                                                  /\ g_state_table # InitializeStateTable]
    /\ UNCHANGED <<now, call>>

PostEvent(e) ==
    LET r == StateMachine_PostEvent(World, e)
    IN  /\ Commit(r.w)
        /\ last' = Last("PostEvent", 0, r.ret)
        /\ UNCHANGED <<now, call, ghost>>

Execute ==
    /\ g_sm_context.state_execution_count < MaxExec
    /\ g_sm_context.error_handler.current_error.retry_count < MaxRetry
    /\ g_comm_verification.good_message_count < MaxGood
    /\ LET r == StateMachine_Execute(World, now)
           check == ExecuteOnState(ExecuteEntry(World, now), now)
           due == ~ErrorHandler_IsCriticalLock(World) /\ TimeoutElapsed(check, now)
           posted == ~ErrorHandler_IsCriticalLock(World) /\ ExecuteTimeout(check, now).ret
       IN  /\ Commit(r.w)
           /\ last' = Last("Execute", 0, r.ret)
           /\ ghost' = [ghost EXCEPT !.overdue = due /\ ~r.w.ctx.state_changed,
                                     !.timeout_posted = posted,
                                     !.hooks = r.w.hooks,
                                     !.tick_runs = TickRuns(@, r.w.hooks)]
    /\ UNCHANGED <<now, call>>

Reset ==
    /\ Commit(StateMachine_Reset(World))
    /\ last' = Last("Reset", 0, TRUE)
    /\ ghost' = [ghost EXCEPT !.overdue = @ /\ ErrorHandler_IsCriticalLock(World),
                              !.hooks = StateMachine_Reset(World).hooks,
                              !.tick_runs = TickRuns(@, StateMachine_Reset(World).hooks)]
    /\ UNCHANGED <<now, call>>

\* ErrorHandler_Report, called while fewer than cap reports were made
ReportUpTo(cap, level, code) ==
    /\ Len(ghost.log) < cap
    /\ g_comm_verification.good_message_count < MaxGood
    /\ LET r == ErrorHandler_Report(World, now, level, code)
       IN  /\ Commit(r.w)
           /\ last' = Last("Report", level, r.ret)
    /\ ghost' = [ghost EXCEPT !.critical_reported = @ \/ level = ERROR_LEVEL_CRITICAL,
                              !.log = Append(@, HistoryInfo(level, code, now, g_sm_context.current_state)),
                              !.minor_window = IF level = ERROR_LEVEL_MINOR
                                               THEN MinorWindow(@, World, ErrorHandler_Report(World, now, level, code).w, now)
                                               ELSE @]
    /\ UNCHANGED <<now, call>>

Report(level, code) == ReportUpTo(MaxReports, level, code)

\* ErrorHandler_HandleMinorError called directly (it is a public function)
HandleMinorError(code) ==
    /\ g_comm_verification.good_message_count < MaxGood
    /\ LET r == ErrorHandler_HandleMinorError(World, now, code)
       IN  /\ Commit(r.w)
           /\ last' = Last("HandleMinorError", 0, r.ret)
           /\ ghost' = [ghost EXCEPT !.minor_window = MinorWindow(@, World, r.w, now)]
    /\ UNCHANGED <<now, call>>

AddTransition(state, event, next_state) ==
    LET r == StateMachine_AddTransition(World, state, event, next_state)
    IN  /\ Commit(r.w)
        /\ last' = Last("AddTransition", 0, r.ret)
        /\ ghost' = [ghost EXCEPT !.add = [state |-> state, event |-> event, next_state |-> next_state]]
        /\ UNCHANGED <<now, call>>

\* ErrorHandler_AttemptRecovery, called while retry_count is below cap
AttemptRecoveryUpTo(cap) ==
    /\ g_sm_context.error_handler.current_error.retry_count < cap
    /\ g_comm_verification.good_message_count < MaxGood
    /\ LET r == ErrorHandler_AttemptRecovery(World, now)
       IN  /\ Commit(r.w)
           /\ last' = Last("AttemptRecovery", 0, r.ret)
    /\ UNCHANGED <<now, call, ghost>>

AttemptRecovery == AttemptRecoveryUpTo(MaxRetry)

RegisterRecoveryHandler(code, handler) ==
    LET r == ErrorHandler_RegisterRecoveryHandler(World, code, handler)
    IN  /\ Commit(r.w)
        /\ last' = Last("RegisterRecoveryHandler", 0, r.ret)
        /\ UNCHANGED <<now, call, ghost>>

\* ErrorHandler_VerifyCommChannel called directly (it is a public function)
VerifyCommChannel ==
    /\ g_comm_verification.good_message_count < MaxGood
    /\ LET r == ErrorHandler_VerifyCommChannel(World, now)
       IN  /\ Commit(r.w)
           /\ last' = Last("VerifyCommChannel", 0, r.ret)
    /\ UNCHANGED <<now, call, ghost>>

ClearError ==
    /\ Commit(ErrorHandler_ClearError(World))
    /\ last' = Last("ClearError", 0, TRUE)
    /\ UNCHANGED <<now, call, ghost>>

\* StateMachine_PostEvent on the main loop, statement by statement, so that an
\* interrupt can come between two of them.
\* line 197: the call begins, result = false
MainPostCall(e) ==
    /\ call.pc = "idle"
    /\ call' = [pc |-> "validate", event |-> e, result |-> FALSE]
    /\ ghost' = [ghost EXCEPT !.begin_slot = g_sm_context.pending_event, !.isr = << >>]
    /\ UNCHANGED <<g_sm_context, g_state_table, g_state_data, g_comm_verification, g_recovery_handlers, now, last>>

\* lines 200-202: an invalid event returns false at once
MainPostValidate ==
    /\ call.pc = "validate"
    /\ IF call.event >= EVENT_MAX \/ call.event = EVENT_NONE
       THEN /\ call' = NoCall
            /\ last' = Last("PostEvent", 0, FALSE)
       ELSE /\ call' = [call EXCEPT !.pc = "enter"]
            /\ UNCHANGED last
    /\ UNCHANGED <<g_sm_context, g_state_table, g_state_data, g_comm_verification, g_recovery_handlers, now, ghost>>

\* line 205: Platform_EnterCritical()
MainPostEnter ==
    /\ call.pc = "enter"
    /\ call' = [call EXCEPT !.pc = "test"]
    /\ UNCHANGED <<g_sm_context, g_state_table, g_state_data, g_comm_verification, g_recovery_handlers, now, last, ghost>>

\* lines 207-212: the test of the slot; an occupied slot gives result = false
MainPostTest ==
    /\ call.pc = "test"
    /\ call' = IF g_sm_context.pending_event # EVENT_NONE
               THEN [call EXCEPT !.pc = "exit", !.result = FALSE]
               ELSE [call EXCEPT !.pc = "store"]
    /\ UNCHANGED <<g_sm_context, g_state_table, g_state_data, g_comm_verification, g_recovery_handlers, now, last, ghost>>

\* lines 215-219: the store into the slot, result = true
MainPostStore ==
    /\ call.pc = "store"
    /\ g_sm_context' = [g_sm_context EXCEPT !.pending_event = call.event]
    /\ call' = [call EXCEPT !.pc = "exit", !.result = TRUE]
    /\ UNCHANGED <<g_state_table, g_state_data, g_comm_verification, g_recovery_handlers, now, last, ghost>>

\* line 222: Platform_ExitCritical()
MainPostExit ==
    /\ call.pc = "exit"
    /\ call' = [call EXCEPT !.pc = "return"]
    /\ UNCHANGED <<g_sm_context, g_state_table, g_state_data, g_comm_verification, g_recovery_handlers, now, last, ghost>>

\* line 224: return result
MainPostReturn ==
    /\ call.pc = "return"
    /\ call' = [call EXCEPT !.pc = "idle"]
    /\ last' = Last("PostEvent", 0, call.result)
    /\ UNCHANGED <<g_sm_context, g_state_table, g_state_data, g_comm_verification, g_recovery_handlers, now, ghost>>

\* Variant: Platform_EnterCritical and Platform_ExitCritical do nothing (the
\* weak defaults), so interrupts are never masked
InCriticalSection_NoOp(pc) == FALSE

\* The main loop is between Platform_EnterCritical() and Platform_ExitCritical()
\* of StateMachine_PostEvent; the two are taken to give mutual exclusion, so no
\* interrupt is served there
InCriticalSection(pc) == pc \in {"test", "store", "exit"}

\* StateMachine_PostEvent called from an interrupt handler: it runs to its end
\* before the main loop goes on
IsrPostEvent(e) ==
    /\ ~InCriticalSection(call.pc)
    /\ Len(ghost.isr) < MaxIsr
    /\ LET r == StateMachine_PostEvent(World, e)
       IN  /\ Commit(r.w)
           /\ ghost' = [ghost EXCEPT !.isr = Append(@, <<e, r.ret>>)]
    /\ UNCHANGED <<now, call, last>>

\* StateMachine_Execute on the main loop, block by block, so that an interrupt
\* can come between two of them and between the two reads and the write of the
\* volatile pending_event in its last block.  The posts made by the hooks and
\* by the timeout check are whole calls of StateMachine_PostEvent, whose
\* critical section is taken to exclude the interrupt.  call.event is the event
\* the tick has looked up (EVENT_NONE before the lookup).
\* lines 141-159: the lock test, then the on-entry block
TickBegin ==
    /\ call.pc = "idle"
    /\ g_sm_context.state_execution_count < MaxExec
    /\ g_comm_verification.good_message_count < MaxGood
    /\ IF g_sm_context.error_handler.critical_lock_active
       THEN /\ Commit(ExecuteLocked(World))
            /\ call' = [pc |-> "tick_return", event |-> EVENT_NONE, result |-> FALSE]
       ELSE /\ Commit(ExecuteEntry(World, now))
            /\ call' = [pc |-> "tick_state", event |-> EVENT_NONE, result |-> FALSE]
    /\ ghost' = [ghost EXCEPT !.isr = << >>]
    /\ UNCHANGED <<now, last>>

\* lines 161-165: the on-tick hook and the execution counter
TickOnState ==
    /\ call.pc = "tick_state"
    /\ Commit(ExecuteOnState(World, now))
    /\ call' = [call EXCEPT !.pc = "tick_timeout"]
    /\ UNCHANGED <<now, last, ghost>>

\* lines 167-178: the timeout check
TickTimeout ==
    /\ call.pc = "tick_timeout"
    /\ Commit(ExecuteTimeout(World, now).w)
    /\ call' = [call EXCEPT !.pc = "tick_test"]
    /\ UNCHANGED <<now, last, ghost>>

\* Variant: the slot is cleared whether or not the test found an event in it
TickAfterTest_AlwaysClear(event) == IF event # EVENT_NONE THEN "tick_lookup" ELSE "tick_clear"

\* line 181: where the tick goes on after reading the slot
TickAfterTest(event) == IF event # EVENT_NONE THEN "tick_lookup" ELSE "tick_return"

\* line 181: the first read of the slot
TickTest ==
    /\ call.pc = "tick_test"
    /\ call' = [call EXCEPT !.pc = TickAfterTest(g_sm_context.pending_event)]
    /\ UNCHANGED <<g_sm_context, g_state_table, g_state_data, g_comm_verification, g_recovery_handlers, now, last, ghost>>

\* lines 182-188: the second read of the slot, the lookup and the transition
TickLookup ==
    /\ call.pc = "tick_lookup"
    /\ LET c == CheckStateTransition(World, g_sm_context.pending_event)
       IN  Commit(IF c.ret THEN PerformStateTransition(World, c.next_state) ELSE World)
    /\ call' = [call EXCEPT !.pc = "tick_clear", !.event = g_sm_context.pending_event]
    /\ UNCHANGED <<now, last, ghost>>

\* line 189: the write of EVENT_NONE into the slot
TickClear ==
    /\ call.pc = "tick_clear"
    /\ g_sm_context' = [g_sm_context EXCEPT !.pending_event = EVENT_NONE]
    /\ call' = [call EXCEPT !.pc = "tick_return"]
    /\ UNCHANGED <<g_state_table, g_state_data, g_comm_verification, g_recovery_handlers, now, last, ghost>>

\* line 192: return g_sm_context.current_state
TickReturn ==
    /\ call.pc = "tick_return"
    /\ call' = NoCall
    /\ last' = Last("Execute", 0, g_sm_context.current_state)
    /\ UNCHANGED <<g_sm_context, g_state_table, g_state_data, g_comm_verification, g_recovery_handlers, now, ghost>>

\* Platform_IsTimeout called by the application with a start time it took from
\* the clock earlier and a duration
IsTimeout(start_time_ms, timeout_ms) ==
    /\ last' = Last("IsTimeout", 0, Platform_IsTimeout(now, start_time_ms, timeout_ms))
    /\ ghost' = [ghost EXCEPT !.is_timeout = [time |-> now, start |-> start_time_ms, timeout |-> timeout_ms,
                                              ret |-> Platform_IsTimeout(now, start_time_ms, timeout_ms)]]
    /\ UNCHANGED <<g_sm_context, g_state_table, g_state_data, g_comm_verification, g_recovery_handlers, now, call>>

\* The clock values within MaxWrap of the wrap of the millisecond counter
NearWrap == {t \in 0 .. (ClockMod - 1) : t <= MaxWrap \/ t >= ClockMod - MaxWrap}

\* One millisecond passes, the counter wrapping from its largest value to 0
ClockTick ==
    /\ (now + 1) % ClockMod \in NearWrap
    /\ now' = (now + 1) % ClockMod
    /\ UNCHANGED <<g_sm_context, g_state_table, g_state_data, g_comm_verification, g_recovery_handlers, call, last, ghost>>

\* The clock moves on between two operations, to the value t
ElapseTo(t) ==
    /\ t > now
    /\ now' = t
    /\ UNCHANGED <<g_sm_context, g_state_table, g_state_data, g_comm_verification, g_recovery_handlers, call, last, ghost>>

\* The clock moves on between two operations
AdvanceTime(d) ==
    /\ now + d <= MaxTime
    /\ now' = (now + d) % ClockMod
    /\ UNCHANGED <<g_sm_context, g_state_table, g_state_data, g_comm_verification, g_recovery_handlers, call, last, ghost>>

\* Error handling: reports of NORMAL and CRITICAL errors, direct calls of the
\* recovery functions, resets and re-initialization, with the clock at rest
Next ==
    \/ \E e \in PostedWithErrors : PostEvent(e)
    \/ Execute
    \/ Reset
    \/ ReInit
    \/ \E level \in ReportedLevels, code \in ReportedCodes : Report(level, code)
    \/ AttemptRecovery
    \/ ClearError

Spec == Init /\ [][Next]_vars

\* The engine alone: every event, ticks, resets, re-initialization and a
\* running clock, with no error reported
NextEngine ==
    \/ \E e \in PostedEvents : PostEvent(e)
    \/ Execute
    \/ Reset
    \/ ReInit
    \/ \E d \in TimeSteps : AdvanceTime(d)

SpecEngine == Init /\ [][NextEngine]_vars

\* Codes reported in the runs about the critical lock
LockCodes == {ERROR_CODE_HARDWARE_FAULT}

\* The critical lock: the operations of Next, with one error code
NextLock ==
    \/ \E e \in PostedWithErrors : PostEvent(e)
    \/ Execute
    \/ Reset
    \/ ReInit
    \/ \E level \in ReportedLevels, code \in LockCodes : Report(level, code)
    \/ AttemptRecovery
    \/ ClearError

SpecLock == Init /\ [][NextLock]_vars

\* Levels handed to ErrorHandler_Report in the runs about severities: the three
\* valid ones and the invalid values ERROR_LEVEL_NONE and ERROR_LEVEL_MAX
AllLevels == ERROR_LEVEL_NONE .. ERROR_LEVEL_MAX

\* Severities: reports of every level, ticks, a posted event and a running clock
NextSeverity ==
    \/ \E level \in AllLevels, code \in ReportedCodes : Report(level, code)
    \/ PostEvent(EVENT_START)
    \/ Execute
    \/ \E d \in TimeSteps : AdvanceTime(d)

SpecSeverity == Init /\ [][NextSeverity]_vars

\* The MINOR handler called directly, with ticks and a running clock
NextMinor ==
    \/ HandleMinorError(ERROR_CODE_COMM_LOST)
    \/ Execute
    \/ \E d \in TimeSteps : AdvanceTime(d)

SpecMinor == Init /\ [][NextMinor]_vars

\* Events posted by the main loop and by interrupt handlers in the runs about
\* preemption: valid ones with a rule in Init, in Idle and in Active, and the
\* invalid EVENT_NONE from the main loop
MainEvents == {EVENT_NONE, EVENT_INIT_COMPLETE, EVENT_START}
IsrEvents == {EVENT_START, EVENT_STOP}

\* Preemption: posts of the main loop, statement by statement, posts from
\* interrupt handlers between the statements, and ticks between the calls
NextIsr ==
    \/ \E e \in MainEvents : MainPostCall(e)
    \/ MainPostValidate
    \/ MainPostEnter
    \/ MainPostTest
    \/ MainPostStore
    \/ MainPostExit
    \/ MainPostReturn
    \/ \E e \in IsrEvents : IsrPostEvent(e)
    \/ (call.pc = "idle" /\ Execute)

SpecIsr == Init /\ [][NextIsr]_vars

\* Preemption of the tick: StateMachine_Execute block by block, posts from
\* interrupt handlers between the blocks and between the ticks, and a running
\* clock
NextTickIsr ==
    \/ TickBegin
    \/ TickOnState
    \/ TickTimeout
    \/ TickTest
    \/ TickLookup
    \/ TickClear
    \/ TickReturn
    \/ \E e \in IsrEvents : IsrPostEvent(e)
    \/ \E d \in TimeSteps : AdvanceTime(d)

SpecTickIsr == Init /\ [][NextTickIsr]_vars

\* The driver's period has elapsed: the next tick is due
TickDue ==
    /\ call.pc = "idle"
    /\ call' = [NoCall EXCEPT !.pc = "due"]
    /\ UNCHANGED <<g_sm_context, g_state_table, g_state_data, g_comm_verification, g_recovery_handlers, now, last, ghost>>

\* The execution counter of a visit is not counted past LiveExec in the runs
\* about progress.
LiveExec == 1

\* StateMachine_Execute in the runs about progress, where ticks never stop:
\* state_execution_count, which no hook of Init, Idle, Active, Recovery and
\* CriticalError reads, is kept at LiveExec once it has reached it, and
\* init_step_count, which State_Init_OnState only compares with
\* INIT_REQUIRED_STEPS, at INIT_REQUIRED_STEPS, so that a stay in one state is
\* a cycle of finitely many states.  The state returned is
\* recorded in last.arg: the records of successive states are compared in these
\* runs, and ret holds the truth values returned by the other operations.
ExecuteLive ==
    /\ call.pc = "due"
    /\ LET r == StateMachine_Execute(World, now)
       IN  /\ Commit([r.w EXCEPT !.ctx.state_execution_count = IF @ > LiveExec THEN LiveExec ELSE @,
                                 !.data.init_step_count = IF @ > INIT_REQUIRED_STEPS THEN INIT_REQUIRED_STEPS ELSE @])
           /\ last' = Last("Execute", r.ret, TRUE)
    /\ call' = NoCall
    /\ UNCHANGED <<now, ghost>>

\* The clock in those runs: it advances by half its range and wraps
LiveStep == ClockMod \div 2
AdvanceLive ==
    /\ now' = (now + LiveStep) % ClockMod
    /\ UNCHANGED <<g_sm_context, g_state_table, g_state_data, g_comm_verification, g_recovery_handlers, call, last, ghost>>

\* Events the environment posts and levels it reports in the runs about
\* progress: an event no rule of Recovery names, and NORMAL errors
LiveEvents == {EVENT_START}
LiveLevels == {ERROR_LEVEL_NORMAL}

\* ErrorHandler_Report of an error no default recovery clears, called between
\* two ticks before the clock has advanced
ReportLive(level) ==
    /\ call.pc = "idle"
    /\ now = 0
    /\ Report(level, ERROR_CODE_HARDWARE_FAULT)

\* Progress: ticks and clock advances for ever, posts at any time, and reports
NextLive ==
    \/ TickDue
    \/ ExecuteLive
    \/ AdvanceLive
    \/ \E e \in LiveEvents : PostEvent(e)
    \/ \E level \in LiveLevels : ReportLive(level)

\* The driver calls StateMachine_Execute on a fixed period (a tick falls due
\* again and again), a tick that is due is run (the main loop is never stuck
\* before the call), and the millisecond clock runs
SpecLive ==
    Init /\ [][NextLive]_vars /\ WF_vars(TickDue) /\ []<>(call.pc = "idle") /\ WF_vars(AdvanceLive)

\* The history ring: a run of reports long enough to wrap the ring, with a
\* running clock between them so that the records differ
NextHistory ==
    \/ ReportUpTo(MaxLogged, ERROR_LEVEL_NORMAL, ERROR_CODE_TIMEOUT)
    \/ \E d \in TimeSteps : AdvanceTime(d)

SpecHistory == Init /\ [][NextHistory]_vars

\* Levels and clock advances in the runs about MINOR reports: a MINOR report
\* and the NORMAL one that takes the machine to Recovery; the clock values 0
\* and 1 and those at the end of the MINOR windows opened at 0 and at 1 and one
\* millisecond after it
MinorLevels == {ERROR_LEVEL_MINOR, ERROR_LEVEL_NORMAL}
MinorClock == {0, 1, ERROR_MINOR_TIMEOUT_MS, ERROR_MINOR_TIMEOUT_MS + 1, ERROR_MINOR_TIMEOUT_MS + 2}

\* MINOR reports: reports of a lost channel as MINOR and as NORMAL, ticks, and
\* a clock that moves by milliseconds around the end of the MINOR window
NextMinorReport ==
    \/ \E level \in MinorLevels : ReportUpTo(MaxMinorReports, level, ERROR_CODE_COMM_LOST)
    \/ Execute
    \/ \E t \in MinorClock : ElapseTo(t)

SpecMinorReport == Init /\ [][NextMinorReport]_vars

\* Arguments of StateMachine_AddTransition: a state with one free rule slot
\* and the invalid STATE_MAX; an event that has no rule in that state,
\* EVENT_NONE and the invalid EVENT_MAX; a valid target and STATE_MAX
AddStates == {STATE_INIT, STATE_MAX}
AddEvents == {EVENT_NONE, EVENT_STOP, EVENT_MAX}
AddTargets == {STATE_ACTIVE, STATE_MAX}

\* The table at run time: rules added, the event they are about posted, ticks,
\* a critical error and re-initialization
NextTable ==
    \/ \E state \in AddStates, event \in AddEvents, next_state \in AddTargets :
           AddTransition(state, event, next_state)
    \/ PostEvent(EVENT_STOP)
    \/ Execute
    \/ Report(ERROR_LEVEL_CRITICAL, ERROR_CODE_HARDWARE_FAULT)
    \/ ReInit

SpecTable == Init /\ [][NextTable]_vars

\* Repeated recovery attempts on one error: a NORMAL report of a code the
\* default logic recovers from or of one it does not, and as many direct calls
\* of ErrorHandler_AttemptRecovery as the 8-bit retry_count can count
NextRetry ==
    \/ \E code \in ReportedCodes : Report(ERROR_LEVEL_NORMAL, code)
    \/ AttemptRecoveryUpTo(UINT8_MOD)
    \/ ClearError

SpecRetry == Init /\ [][NextRetry]_vars

\* Codes reported in the runs about the recovery logic: the two the default
\* logic knows and one it does not; codes handed to
\* ErrorHandler_RegisterRecoveryHandler: two of them and the invalid
\* ERROR_CODE_MAX; and the handlers registered (NULL removes a handler)
RecoveryCodes == {ERROR_CODE_TIMEOUT, ERROR_CODE_COMM_LOST, ERROR_CODE_HARDWARE_FAULT}
HandlerCodes == {ERROR_CODE_COMM_LOST, ERROR_CODE_HARDWARE_FAULT, ERROR_CODE_MAX}
Handlers == {"NULL", "succeed", "fail"}

\* The recovery logic: a NORMAL report, direct recovery attempts, direct calls
\* of the channel probe, custom handlers registered and removed, the error
\* cleared, and a running clock
NextRecovery ==
    \/ \E code \in RecoveryCodes : Report(ERROR_LEVEL_NORMAL, code)
    \/ AttemptRecovery
    \/ VerifyCommChannel
    \/ \E code \in HandlerCodes, handler \in Handlers : RegisterRecoveryHandler(code, handler)
    \/ ClearError
    \/ \E d \in TimeSteps : AdvanceTime(d)

SpecRecovery == Init /\ [][NextRecovery]_vars

\* Rules appended in the runs about duplicate rules: to Init (one free slot),
\* which has no rule for START, and to Idle (two free slots), which has the
\* rule START -> Active; the targets are that of the built rule and another one
DupStates == {STATE_INIT, STATE_IDLE}
DupEvents == {EVENT_START}
DupTargets == {STATE_ACTIVE, STATE_RECOVERY}

\* Duplicate rules: rules appended at run time, posts of their events and ticks
NextDuplicate ==
    \/ \E state \in DupStates, event \in DupEvents, next_state \in DupTargets :
          AddTransition(state, event, next_state)
    \/ \E e \in DupEvents : PostEvent(e)
    \/ Execute

SpecDuplicate == Init /\ [][NextDuplicate]_vars

\* Clock values at which the channel probe is called: at the start of its
\* first window (opened at 0 by ErrorHandler_Init), on and just past the end of
\* that window, and on and just past the end of a window restarted there
ProbeClock == {0, COMM_VERIFICATION_WINDOW_MS, COMM_VERIFICATION_WINDOW_MS + 1,
               2 * COMM_VERIFICATION_WINDOW_MS + 1, 2 * COMM_VERIFICATION_WINDOW_MS + 2}

\* The channel probe: called directly and through the recovery of a COMM_LOST
\* error, at clock values on both sides of the end of its window
NextProbe ==
    \/ VerifyCommChannel
    \/ Report(ERROR_LEVEL_NORMAL, ERROR_CODE_COMM_LOST)
    \/ AttemptRecovery
    \/ ClearError
    \/ \E t \in ProbeClock : ElapseTo(t)

SpecProbe == Init /\ [][NextProbe]_vars

\* StateMachine_Init called shortly before the millisecond counter wraps
InitNearWrap ==
    /\ now = ClockMod - MaxWrap
    /\ g_sm_context = StateMachine_Init(now).ctx
    /\ g_state_table = StateMachine_Init(now).table
    /\ g_state_data = StateMachine_Init(now).data
    /\ g_comm_verification = StateMachine_Init(now).comm
    /\ g_recovery_handlers = StateMachine_Init(now).handlers
    /\ call = NoCall
    /\ last = Last("Init", 0, TRUE)
    /\ ghost = Ghost_Init

\* Durations handed to Platform_IsTimeout: from 0 to past the longest time that
\* can elapse in the runs about the wrap
WrapDurations == 0 .. (2 * MaxWrap + 1)

\* The elapsed-time test across the wrap of the clock: start times taken
\* before and after the wrap, tested before and after it
NextWrap ==
    \/ \E start \in NearWrap, d \in WrapDurations : IsTimeout(start, d)
    \/ ClockTick

SpecWrap == InitNearWrap /\ [][NextWrap]_vars

\* ---------------------------------------------------------------------------
\* Properties
\* ---------------------------------------------------------------------------
\* The step is a call of the named operation (the clock moves between calls,
\* not during one)
Called(op) == last'.op = op /\ now' = now

\* C1: at most one pending event.  A StateMachine_PostEvent call with a valid
\* event returns true and stores the event when the slot is empty, and returns
\* false and changes nothing when the slot is occupied; so in a run of posts
\* with no tick between them only the first succeeds and the slot keeps the
\* first event.
C1_AtMostOnePendingEvent ==
    [][Called("PostEvent") =>
          IF g_sm_context.pending_event # EVENT_NONE
          THEN /\ last'.ret = FALSE
               /\ g_sm_context' = g_sm_context
          ELSE \A e \in ValidEvents :
                   PostEvent(e) =>
                       /\ last'.ret = TRUE
                       /\ g_sm_context' = [g_sm_context EXCEPT !.pending_event = e]]_vars

\* A post was rejected while the slot held an event
C1_Witness ==
    /\ last.op = "PostEvent"
    /\ last.ret = FALSE
    /\ g_sm_context.pending_event \in ValidEvents

C4_EscalationLocks ==
    [][(/\ Called("Execute")
        /\ g_sm_context.current_state = STATE_RECOVERY
        /\ g_sm_context.error_handler.current_error.level = ERROR_LEVEL_NORMAL
        /\ ExecuteBeforeEvent(World, now).w.ctx.pending_event = EVENT_RECOVERY_FAILED
        /\ g_sm_context'.current_state = STATE_CRITICAL_ERROR)
       => g_sm_context'.error_handler.critical_lock_active]_vars

\* C5: CriticalError is absorbing.  Once current_state is STATE_CRITICAL_ERROR,
\* no StateMachine_Execute, StateMachine_PostEvent, ErrorHandler_Report,
\* ErrorHandler_ClearError or StateMachine_Reset call changes current_state.
C5_CriticalErrorAbsorbing ==
    [][(/\ g_sm_context.current_state = STATE_CRITICAL_ERROR
        /\ \E op \in {"Execute", "PostEvent", "Report", "ClearError", "Reset"} : Called(op))
       => g_sm_context'.current_state = STATE_CRITICAL_ERROR]_vars

\* The rules of state s for event e, by their place in the rule list
RuleIndexes(s, e) ==
    {i \in 1 .. g_state_table[s].transition_count : g_state_table[s].transitions[i].event = e}

\* The target of the first rule of state s for event e
FirstRuleTarget(s, e) ==
    LET first == CHOOSE i \in RuleIndexes(s, e) : \A j \in RuleIndexes(s, e) : i <= j
    IN  g_state_table[s].transitions[first].next_state

\* C6: transition determinism.  In a tick without lockout that reaches the
\* dispatch with a valid event E pending in state S: if S has a rule for E the
\* tick ends in the target of the first such rule with previous_state = S; if
\* it has none, current_state and previous_state are unchanged; either way the
\* slot is empty when the tick returns.
C6_TransitionDeterminism ==
    [][(Called("Execute") /\ ~g_sm_context.error_handler.critical_lock_active) =>
          LET b == ExecuteBeforeEvent(World, now).w
              S == g_sm_context.current_state
              E == b.ctx.pending_event
          IN  E \in ValidEvents =>
                  /\ IF RuleIndexes(S, E) # {}
                     THEN /\ g_sm_context'.current_state = FirstRuleTarget(S, E)
                          /\ g_sm_context'.previous_state = S
                     ELSE /\ g_sm_context'.current_state = S
                          /\ g_sm_context'.previous_state = g_sm_context.previous_state
                  /\ g_sm_context'.pending_event = EVENT_NONE]_vars

\* A tick dispatched DATA_READY in Monitoring, where it is the second rule
C6_Witness ==
    /\ last.op = "Execute"
    /\ g_sm_context.current_state = STATE_PROCESSING
    /\ g_sm_context.previous_state = STATE_MONITORING
    /\ g_sm_context.state_changed
    /\ g_sm_context.pending_event = EVENT_NONE

\* The transition table of spec section 6, as (state, event, target) triples
CanonicalRules ==
    {<<STATE_INIT, EVENT_INIT_COMPLETE, STATE_IDLE>>,
     <<STATE_INIT, EVENT_ERROR_NORMAL, STATE_RECOVERY>>,
     <<STATE_INIT, EVENT_ERROR_CRITICAL, STATE_CRITICAL_ERROR>>,
     <<STATE_INIT, EVENT_TIMEOUT, STATE_RECOVERY>>,
     <<STATE_IDLE, EVENT_START, STATE_ACTIVE>>,
     <<STATE_IDLE, EVENT_ERROR_NORMAL, STATE_RECOVERY>>,
     <<STATE_IDLE, EVENT_ERROR_CRITICAL, STATE_CRITICAL_ERROR>>,
     <<STATE_ACTIVE, EVENT_DATA_READY, STATE_PROCESSING>>,
     <<STATE_ACTIVE, EVENT_STOP, STATE_IDLE>>,
     <<STATE_ACTIVE, EVENT_ERROR_NORMAL, STATE_RECOVERY>>,
     <<STATE_ACTIVE, EVENT_ERROR_CRITICAL, STATE_CRITICAL_ERROR>>,
     <<STATE_PROCESSING, EVENT_PROCESSING_DONE, STATE_COMMUNICATING>>,
     <<STATE_PROCESSING, EVENT_TIMEOUT, STATE_RECOVERY>>,
     <<STATE_PROCESSING, EVENT_ERROR_NORMAL, STATE_RECOVERY>>,
     <<STATE_PROCESSING, EVENT_ERROR_CRITICAL, STATE_CRITICAL_ERROR>>,
     <<STATE_COMMUNICATING, EVENT_COMM_COMPLETE, STATE_MONITORING>>,
     <<STATE_COMMUNICATING, EVENT_TIMEOUT, STATE_RECOVERY>>,
     <<STATE_COMMUNICATING, EVENT_ERROR_NORMAL, STATE_RECOVERY>>,
     <<STATE_COMMUNICATING, EVENT_ERROR_CRITICAL, STATE_CRITICAL_ERROR>>,
     <<STATE_MONITORING, EVENT_STOP, STATE_IDLE>>,
     <<STATE_MONITORING, EVENT_DATA_READY, STATE_PROCESSING>>,
     <<STATE_MONITORING, EVENT_ERROR_NORMAL, STATE_RECOVERY>>,
     <<STATE_MONITORING, EVENT_ERROR_CRITICAL, STATE_CRITICAL_ERROR>>,
     <<STATE_CALIBRATING, EVENT_PROCESSING_DONE, STATE_DIAGNOSTICS>>,
     <<STATE_CALIBRATING, EVENT_TIMEOUT, STATE_RECOVERY>>,
     <<STATE_CALIBRATING, EVENT_ERROR_NORMAL, STATE_RECOVERY>>,
     <<STATE_CALIBRATING, EVENT_ERROR_CRITICAL, STATE_CRITICAL_ERROR>>,
     <<STATE_DIAGNOSTICS, EVENT_PROCESSING_DONE, STATE_ACTIVE>>,
     <<STATE_DIAGNOSTICS, EVENT_TIMEOUT, STATE_RECOVERY>>,
     <<STATE_DIAGNOSTICS, EVENT_ERROR_NORMAL, STATE_RECOVERY>>,
     <<STATE_DIAGNOSTICS, EVENT_ERROR_CRITICAL, STATE_CRITICAL_ERROR>>,
     <<STATE_RECOVERY, EVENT_RECOVERY_SUCCESS, STATE_IDLE>>,
     <<STATE_RECOVERY, EVENT_RECOVERY_FAILED, STATE_CRITICAL_ERROR>>,
     <<STATE_RECOVERY, EVENT_TIMEOUT, STATE_CRITICAL_ERROR>>,
     <<STATE_RECOVERY, EVENT_ERROR_CRITICAL, STATE_CRITICAL_ERROR>>}

\* C7: the table built by StateMachine_Init is the canonical one.  For every
\* state and event, the listed pairs lead to the listed target and the pairs
\* not listed have no rule; every state but CriticalError has
\* ERROR_CRITICAL -> CriticalError, and CriticalError has no rule.
C7_CanonicalTable ==
    last.op = "Init" =>
        /\ \A s \in States, e \in EVENT_NONE .. (EVENT_MAX - 1) :
               LET listed == {t \in States : <<s, e, t>> \in CanonicalRules}
               IN  IF listed = {}
                   THEN RuleIndexes(s, e) = {}
                   ELSE RuleIndexes(s, e) # {} /\ FirstRuleTarget(s, e) \in listed
        /\ \A s \in States \ {STATE_CRITICAL_ERROR} :
               /\ RuleIndexes(s, EVENT_ERROR_CRITICAL) # {}
               /\ FirstRuleTarget(s, EVENT_ERROR_CRITICAL) = STATE_CRITICAL_ERROR
        /\ g_state_table[STATE_CRITICAL_ERROR].transition_count = 0

\* StateMachine_Init was called again, after the clock had moved on
C7_Witness ==
    /\ last.op = "Init"
    /\ g_sm_context.state_entry_time > 0

\* C8: a NORMAL error always leads to Recovery.  When the operation before a
\* tick was ErrorHandler_Report(ERROR_LEVEL_NORMAL, code), called in a state
\* other than Recovery and CriticalError with no lockout, the state after the
\* tick is STATE_RECOVERY.
C8_NormalErrorLeadsToRecovery ==
    [][(/\ last.op = "Report"
        /\ last.arg = ERROR_LEVEL_NORMAL
        /\ g_sm_context.current_state \notin {STATE_RECOVERY, STATE_CRITICAL_ERROR}
        /\ ~g_sm_context.error_handler.critical_lock_active
        /\ Called("Execute"))
       => g_sm_context'.current_state = STATE_RECOVERY]_vars

\* The target of the TIMEOUT rule of state s
TimeoutTarget(s) == FirstRuleTarget(s, EVENT_TIMEOUT)

\* C9 as amended: in a tick without lockout in a state S with timeout T > 0,
\* if the clock oracle reports T elapsed since entry and the slot is empty when
\* the timeout check runs, TIMEOUT is posted and dispatched in that same tick
\* and the tick ends in the TIMEOUT target of S; every accepted TIMEOUT post
\* ends the visit in the tick that made it, so no visit has two; and no
\* TIMEOUT is posted before T has elapsed.
C9_TimeoutEndsVisit ==
    [][(Called("Execute") /\ ~g_sm_context.error_handler.critical_lock_active) =>
          LET check == ExecuteOnState(ExecuteEntry(World, now), now)
              S == g_sm_context.current_state
              T == g_state_table[S].timeout_ms
              elapsed == T > 0 /\ Platform_IsTimeout(now, check.ctx.state_entry_time, T)
          IN  /\ (elapsed /\ check.ctx.pending_event = EVENT_NONE) => ghost'.timeout_posted
              /\ ghost'.timeout_posted =>
                     /\ g_sm_context'.current_state = TimeoutTarget(S)
                     /\ g_sm_context'.previous_state = S
                     /\ g_sm_context'.state_changed
                     /\ g_sm_context'.pending_event = EVENT_NONE
              /\ ~elapsed => ~ghost'.timeout_posted]_vars

\* The Init timeout fired: the tick posted TIMEOUT and went to Recovery
C9_Witness ==
    /\ last.op = "Execute"
    /\ ghost.timeout_posted
    /\ g_sm_context.previous_state = STATE_INIT
    /\ g_sm_context.current_state = STATE_RECOVERY
    /\ g_sm_context.state_changed

\* C9 as stated: timeout monotonicity.  Once a tick of the visit has found the
\* timeout elapsed, the next tick at the latest takes the state to the TIMEOUT
\* target, unless it dispatches an event that has a rule in the state.
C9_TimeoutMonotonicity ==
    [][(/\ Called("Execute")
        /\ ~g_sm_context.error_handler.critical_lock_active
        /\ ghost.overdue
        /\ LET E == ExecuteBeforeEvent(World, now).w.ctx.pending_event
           IN  E = EVENT_TIMEOUT \/ RuleIndexes(g_sm_context.current_state, E) = {})
       => g_sm_context'.current_state = TimeoutTarget(g_sm_context.current_state)]_vars

\* C10: retry ceiling.  current_error.retry_count never exceeds
\* ERROR_MAX_RECOVERY_ATTEMPTS.
C10_RetryCeiling ==
    g_sm_context.error_handler.current_error.retry_count <= ERROR_MAX_RECOVERY_ATTEMPTS

\* C11: history circularity.  After n >= 1 reports since initialization,
\* ErrorHandler_GetHistoryError(k) succeeds for every k below the smaller of n
\* and ERROR_HISTORY_SIZE and copies out the (k+1)-th most recently reported
\* record (k = 0: the most recent); so once more than ERROR_HISTORY_SIZE
\* records were reported the ring holds the ERROR_HISTORY_SIZE most recent ones
\* and the oldest are gone.
C11_HistoryCircularity ==
    LET n == Len(ghost.log)
        kept == IF n < ERROR_HISTORY_SIZE THEN n ELSE ERROR_HISTORY_SIZE
    IN  \A k \in 0 .. (kept - 1) :
            /\ ErrorHandler_GetHistoryError(World, k).ret
            /\ ErrorHandler_GetHistoryError(World, k).error_info = ghost.log[n - k]

\* More reports than the ring holds were made, the first of them is no longer in
\* the ring, and the newest and the oldest record kept differ
C11_Witness ==
    /\ Len(ghost.log) > ERROR_HISTORY_SIZE
    /\ \A k \in 0 .. (ERROR_HISTORY_SIZE - 1) :
           ErrorHandler_GetHistoryError(World, k).error_info # ghost.log[1]
    /\ ErrorHandler_GetHistoryError(World, 0).error_info
           # ErrorHandler_GetHistoryError(World, ERROR_HISTORY_SIZE - 1).error_info

\* C12: every ErrorHandler_Report(level, code), for valid and invalid levels
\* alike, writes the record (level, code, clock, current state, retry_count 0,
\* not recovered) at the write index of the history ring and advances the index
\* by one modulo ERROR_HISTORY_SIZE; the state recorded is the one before the
\* dispatch.  For a level other than MINOR, NORMAL and CRITICAL the call then
\* returns false and leaves the current-error slot, the lockout flag and the
\* pending-event slot as they were.
C12_ReportAlwaysLogged ==
    [][Called("Report") =>
          LET h == g_sm_context.error_handler
              reported == ghost'.log[Len(ghost'.log)]
          IN  /\ g_sm_context'.error_handler.error_history =
                     [h.error_history EXCEPT ![h.history_index] =
                          [level |-> last'.arg, code |-> reported.code, timestamp |-> now,
                           state |-> g_sm_context.current_state,
                           retry_count |-> 0, is_recovered |-> FALSE]]
              /\ g_sm_context'.error_handler.history_index = (h.history_index + 1) % ERROR_HISTORY_SIZE
              /\ last'.arg \notin {ERROR_LEVEL_MINOR, ERROR_LEVEL_NORMAL, ERROR_LEVEL_CRITICAL} =>
                     /\ last'.ret = FALSE
                     /\ g_sm_context'.error_handler.current_error = h.current_error
                     /\ g_sm_context'.error_handler.critical_lock_active = h.critical_lock_active
                     /\ g_sm_context'.pending_event = g_sm_context.pending_event]_vars

\* A report with the invalid level ERROR_LEVEL_MAX was rejected and logged while
\* an event was pending
C12_Witness ==
    /\ last.op = "Report"
    /\ last.arg = ERROR_LEVEL_MAX
    /\ last.ret = FALSE
    /\ ErrorHandler_GetHistoryError(World, 0).error_info.level = ERROR_LEVEL_MAX
    /\ g_sm_context.error_handler.history_index = 1
    /\ g_sm_context.pending_event # EVENT_NONE

\* The MINOR window, opened at minor_error_timestamp, has expired at the clock
\* value now: a call of ErrorHandler_HandleMinorError escalates to NORMAL
MinorWindowExpired ==
    /\ g_sm_context.error_handler.minor_error_timestamp # 0
    /\ SubU32(now, g_sm_context.error_handler.minor_error_timestamp) > ERROR_MINOR_TIMEOUT_MS

\* C18: ErrorHandler_HandleMinorError returns true when the minor error is
\* handled locally, within the window, and false when the window has expired
\* and the error is escalated to NORMAL.
C18_MinorReturnValue ==
    [][Called("HandleMinorError") => (last'.ret = ~MinorWindowExpired)]_vars

\* C13: StateMachine_PostEvent(e) with e = EVENT_NONE or e >= EVENT_MAX returns
\* false and leaves the pending-event slot and the rest of the context (and the
\* other globals) unchanged, with the slot empty or occupied.
C13_InvalidEventRejected ==
    [][Called("PostEvent") =>
          \A e \in {EVENT_NONE, EVENT_MAX} :
              PostEvent(e) =>
                  /\ last'.ret = FALSE
                  /\ UNCHANGED <<g_sm_context, g_state_table, g_state_data, g_comm_verification, g_recovery_handlers>>]_vars

\* A post was rejected while the slot was empty: the event was an invalid one
C13_Witness ==
    /\ last.op = "PostEvent"
    /\ last.ret = FALSE
    /\ g_sm_context.pending_event = EVENT_NONE

C15_ResetNoOpUnderLock ==
    [][(Called("Reset") /\ ErrorHandler_IsCriticalLock(World)) =>
          /\ g_sm_context' = g_sm_context
          /\ g_state_data' = g_state_data
          /\ ghost'.hooks = << >>]_vars

\* StateMachine_Reset was called under the lock before the lock had forced the
\* machine out of Recovery, with the ERROR_CRITICAL event pending
C15_Witness ==
    /\ last.op = "Reset"
    /\ g_sm_context.error_handler.critical_lock_active
    /\ g_sm_context.current_state = STATE_RECOVERY
    /\ g_sm_context.pending_event # EVENT_NONE
    /\ g_sm_context.error_handler.current_error.level = ERROR_LEVEL_CRITICAL

\* A tick of the start-up scenario: the machine is in Init, not locked, no
\* event is pending when the tick starts and the state timeout does not fire in it
StartUpTick ==
    /\ Called("Execute")
    /\ g_sm_context.current_state = STATE_INIT
    /\ ~ErrorHandler_IsCriticalLock(World)
    /\ g_sm_context.pending_event = EVENT_NONE
    /\ ~TimeoutElapsed(ExecuteOnState(ExecuteEntry(World, now), now), now)

\* The number of the run of Init's on-tick hook that a tick starting now makes
InitHookRun == IF g_sm_context.state_changed THEN 1 ELSE g_state_data.init_step_count + 1

IsrAccepted == {i \in 1 .. Len(ghost.isr) : ghost.isr[i][2]}

\* C17: StateMachine_PostEvent is interrupt-safe when Platform_EnterCritical
\* and Platform_ExitCritical give mutual exclusion.  When a main-loop call with a
\* valid event that began with the slot empty returns, having been preempted by
\* posts of valid events from interrupt handlers at any of its statements,
\* exactly one of the calls has returned true and the slot holds that call's
\* event; whenever a call returns true the slot holds its event.
C17_PostEventInterruptSafe ==
    [][/\ (call.pc = "return" /\ call'.pc = "idle" /\ ghost.begin_slot = EVENT_NONE /\ ghost.isr # << >>) =>
             IF call.result
             THEN /\ IsrAccepted = {}
                  /\ g_sm_context.pending_event = call.event
             ELSE /\ Cardinality(IsrAccepted) = 1
                  /\ \A i \in IsrAccepted : g_sm_context.pending_event = ghost.isr[i][1]
       /\ (call.pc = "store" /\ call'.pc = "exit") => g_sm_context'.pending_event = call.event
       /\ (call.pc = "exit" /\ call.result) => g_sm_context.pending_event = call.event
       /\ (Len(ghost'.isr) > Len(ghost.isr) /\ ghost'.isr[Len(ghost'.isr)][2]) =>
             g_sm_context'.pending_event = ghost'.isr[Len(ghost'.isr)][1]]_vars

\* A main-loop post of START that began with the slot empty has returned false:
\* an interrupt handler's post of STOP came before the main loop entered the
\* critical section, and a second one after it left it was rejected
C17_Witness ==
    /\ last.op = "PostEvent"
    /\ last.ret = FALSE
    /\ call = [pc |-> "idle", event |-> EVENT_START, result |-> FALSE]
    /\ ghost.begin_slot = EVENT_NONE
    /\ ghost.isr = <<(<<EVENT_STOP, TRUE>>), (<<EVENT_STOP, FALSE>>)>>
    /\ g_sm_context.pending_event = EVENT_STOP

\* C19: ErrorHandler_GetHistoryCount returns the number of errors logged since
\* initialization, capped at ERROR_HISTORY_SIZE: 0 after initialization, n after
\* n < ERROR_HISTORY_SIZE reports, ERROR_HISTORY_SIZE once the ring is full.
C19_HistoryCount ==
    ErrorHandler_GetHistoryCount(World) =
        IF Len(ghost.log) < ERROR_HISTORY_SIZE THEN Len(ghost.log) ELSE ERROR_HISTORY_SIZE

\* C20: StateMachine_GetExecutionCount equals the number of times the on-tick
\* hook of the current state has run since that state became current; it is 0
\* from the transition until the first on-tick run of the new state is done.
C20_ExecutionCount ==
    StateMachine_GetExecutionCount(World) = ghost.tick_runs

\* C22: Platform_IsTimeout(start, d) is wraparound-safe: it returns true exactly
\* when the elapsed time (now - start) modulo the width of the clock is at least
\* d, also when the clock has wrapped between start and now.
C22_WraparoundSafe ==
    ghost.is_timeout.ret =
        (SubU32(ghost.is_timeout.time, ghost.is_timeout.start) >= ghost.is_timeout.timeout)

\* The start of the MINOR window a call of ErrorHandler_HandleMinorError made now
\* belongs to: the open window's start, or now when the call opens one
MinorWindowStart == IF ghost.minor_window.open THEN ghost.minor_window.start ELSE now

\* The step is a call ErrorHandler_Report(ERROR_LEVEL_MINOR, _)
MinorReport == Called("Report") /\ last'.arg = ERROR_LEVEL_MINOR

\* C21: a MINOR error causes no state change while its window is open: a report
\* of level MINOR handled within ERROR_MINOR_TIMEOUT_MS of the window start
\* posts no event, leaves the current-error record and the lockout flag
\* unchanged, and the following tick leaves current_state as it would have been
\* without the report.
C21_MinorNoStateChange ==
    [][(MinorReport /\ SubU32(now, MinorWindowStart) <= ERROR_MINOR_TIMEOUT_MS) =>
          /\ g_sm_context'.pending_event = g_sm_context.pending_event
          /\ g_sm_context'.error_handler.current_error = g_sm_context.error_handler.current_error
          /\ g_sm_context'.error_handler.critical_lock_active = g_sm_context.error_handler.critical_lock_active
          /\ g_sm_context'.current_state = g_sm_context.current_state
          /\ StateMachine_Execute(World', now).w.ctx.current_state =
                 StateMachine_Execute(World, now).w.ctx.current_state]_vars

TableRules(s) ==
    {<<s, g_state_table[s].transitions[i].event, g_state_table[s].transitions[i].next_state>> :
        i \in 1 .. g_state_table[s].transition_count}

\* C23: re-initialization restores the initial configuration from any reachable
\* state, lockout included.  After StateMachine_Init, current_state =
\* previous_state = Init, the pending-event slot is empty, the state-changed
\* flag is false, the execution counter is 0, there is no current error, the
\* critical lock is off and the table is the canonical one (the rules added by
\* StateMachine_AddTransition are gone); StateMachine_Init returns true.
C23_ReInitRestores ==
    last.op = "Init" =>
        /\ last.ret = TRUE
        /\ g_sm_context.current_state = STATE_INIT
        /\ g_sm_context.previous_state = STATE_INIT
        /\ g_sm_context.pending_event = EVENT_NONE
        /\ g_sm_context.state_changed = FALSE
        /\ g_sm_context.state_execution_count = 0
        /\ g_sm_context.error_handler.current_error.level = ERROR_LEVEL_NONE
        /\ g_sm_context.error_handler.current_error.code = ERROR_CODE_NONE
        /\ g_sm_context.error_handler.critical_lock_active = FALSE
        /\ \A s \in States :
               /\ TableRules(s) = {rule \in CanonicalRules : rule[1] = s}
               /\ g_state_table[s].transition_count = Cardinality({rule \in CanonicalRules : rule[1] = s})

\* StateMachine_Init was called while the critical lock was active and the
\* table held a rule added to Init's list
C23_Witness ==
    /\ last.op = "Init"
    /\ ghost.init_wiped

\* The call of StateMachine_AddTransition of this step is one the function
\* rejects: an argument is out of range or the state's rule list is full
AddRejected ==
    \/ ghost'.add.state >= STATE_MAX
    \/ ghost'.add.event >= EVENT_MAX
    \/ ghost'.add.next_state >= STATE_MAX
    \/ g_state_table[ghost'.add.state].transition_count >= SM_MAX_TRANSITIONS_PER_STATE

\* C24: StateMachine_AddTransition(state, event, target) returns false and
\* leaves the table unchanged when state >= STATE_MAX, event >= EVENT_MAX,
\* target >= STATE_MAX or the state's rule list already holds
\* SM_MAX_TRANSITIONS_PER_STATE rules; otherwise it appends the rule at the end
\* of the list and returns true; no state's transition_count ever exceeds
\* SM_MAX_TRANSITIONS_PER_STATE.
C24_AddTransitionBounded ==
    [][/\ Called("AddTransition") =>
             /\ g_sm_context' = g_sm_context
             /\ IF AddRejected
                THEN /\ last'.ret = FALSE
                     /\ g_state_table' = g_state_table
                ELSE /\ last'.ret = TRUE
                     /\ g_state_table' =
                            [g_state_table EXCEPT
                                ![ghost'.add.state].transitions =
                                    Append(@, Rule(ghost'.add.event, ghost'.add.next_state)),
                                ![ghost'.add.state].transition_count = @ + 1]
       /\ \A s \in States :
             /\ g_state_table'[s].transition_count <= SM_MAX_TRANSITIONS_PER_STATE
             /\ Len(g_state_table'[s].transitions) = g_state_table'[s].transition_count]_vars

\* A rule with valid arguments was refused because Init's list, to which a
\* rule had been added before, was full
C24_Witness ==
    /\ last.op = "AddTransition"
    /\ last.ret = FALSE
    /\ ghost.add = [state |-> STATE_INIT, event |-> EVENT_STOP, next_state |-> STATE_ACTIVE]
    /\ g_state_table[STATE_INIT].transition_count = SM_MAX_TRANSITIONS_PER_STATE
    /\ g_state_table[STATE_INIT].transitions[SM_MAX_TRANSITIONS_PER_STATE] = Rule(EVENT_NONE, STATE_ACTIVE)

\* C25: on the first tick after every transition (dispatched by an event,
\* performed by StateMachine_Reset or forced by lockout) StateMachine_Execute
\* runs the new state's on-entry hook exactly once, before that state's on-tick
\* hook, clears the state-changed flag, re-stamps the entry time and resets the
\* execution counter (the tick's own on-tick run then makes it 1; a transition
\* dispatched by the same tick sets the flag again); the on-exit hook of the old
\* state ran at the transition itself.
C25_EntryHookOnFirstTick ==
    [][/\ (Called("Execute") /\ g_sm_context.state_changed) =>
             /\ Len(ghost'.hooks) >= 2
             /\ ghost'.hooks[1] = <<"on_entry", g_sm_context.current_state>>
             /\ ghost'.hooks[2] = <<"on_state", g_sm_context.current_state>>
             /\ HookRuns(ghost'.hooks, "on_entry") = 1
             /\ IF HookRuns(ghost'.hooks, "on_exit") = 0
                THEN /\ g_sm_context'.state_changed = FALSE
                     /\ g_sm_context'.state_entry_time = now
                     /\ g_sm_context'.state_execution_count = 1
                ELSE g_sm_context'.state_changed = TRUE
       /\ ((Called("Execute") \/ Called("Reset")) /\ g_sm_context'.current_state # g_sm_context.current_state) =>
             /\ ghost'.hooks # << >>
             /\ ghost'.hooks[Len(ghost'.hooks)] = <<"on_exit", g_sm_context.current_state>>
             /\ HookRuns(ghost'.hooks, "on_exit") = 1
             /\ g_sm_context'.state_changed = TRUE]_vars

\* C26: a timeout never overrides a pending event.  At a tick that reaches the
\* timeout check (no lockout) with the state timeout elapsed and the slot
\* already holding an event E, posted before the tick or by the on-tick hook of
\* that tick, the TIMEOUT post is dropped and E is the event the tick
\* dispatches: the tick ends in E's target if the state has a rule for E and in
\* the same state otherwise, with the slot empty.
C26_TimeoutNeverOverrides ==
    [][(Called("Execute") /\ ~g_sm_context.error_handler.critical_lock_active) =>
          LET check == ExecuteOnState(ExecuteEntry(World, now), now)
              S == g_sm_context.current_state
              T == g_state_table[S].timeout_ms
              E == check.ctx.pending_event
          IN  (T > 0 /\ SubU32(now, check.ctx.state_entry_time) >= T /\ E # EVENT_NONE) =>
                  /\ ~ghost'.timeout_posted
                  /\ g_sm_context'.pending_event = EVENT_NONE
                  /\ g_sm_context'.current_state =
                         IF RuleIndexes(S, E) = {} THEN S ELSE FirstRuleTarget(S, E)
                  /\ g_sm_context'.state_changed = (RuleIndexes(S, E) # {})]_vars

\* A tick in Init found the timeout elapsed and the slot occupied by an event
\* with no rule in Init: no TIMEOUT was posted and the machine is still in Init
C26_Witness ==
    /\ last.op = "Execute"
    /\ ghost.overdue
    /\ ~ghost.timeout_posted
    /\ ~g_sm_context.error_handler.critical_lock_active
    /\ g_sm_context.current_state = STATE_INIT
    /\ g_sm_context.pending_event = EVENT_NONE
    /\ g_sm_context.error_handler.current_error.level = ERROR_LEVEL_NONE

\* C27: recovery failure is permanent.  Once ErrorHandler_AttemptRecovery has
\* failed because retry_count reached ERROR_MAX_RECOVERY_ATTEMPTS, every later
\* call on the same current error fails too, for any number of calls: a call
\* made with the count at or above the maximum returns false, raises the count
\* and leaves it at or above the maximum.
C27_RecoveryFailurePermanent ==
    [][(/\ Called("AttemptRecovery")
        /\ g_sm_context.error_handler.current_error.level # ERROR_LEVEL_NONE
        /\ g_sm_context.error_handler.current_error.retry_count >= ERROR_MAX_RECOVERY_ATTEMPTS) =>
          /\ last'.ret = FALSE
          /\ g_sm_context'.error_handler.current_error.retry_count >
                 g_sm_context.error_handler.current_error.retry_count
          /\ g_sm_context'.error_handler.current_error.retry_count >= ERROR_MAX_RECOVERY_ATTEMPTS]_vars

\* C28: whenever ErrorHandler_AttemptRecovery returns success for an active
\* error, through the default logic or through a handler registered with
\* ErrorHandler_RegisterRecoveryHandler, the current-error record afterwards has
\* is_recovered = true and its level and code unchanged.
C28_SuccessMarksRecovered ==
    [][(/\ Called("AttemptRecovery")
        /\ g_sm_context.error_handler.current_error.level # ERROR_LEVEL_NONE
        /\ last'.ret = TRUE) =>
          /\ g_sm_context'.error_handler.current_error.is_recovered = TRUE
          /\ g_sm_context'.error_handler.current_error.level = g_sm_context.error_handler.current_error.level
          /\ g_sm_context'.error_handler.current_error.code = g_sm_context.error_handler.current_error.code]_vars

\* C29: ErrorHandler_AttemptRecovery by case, with no custom handler registered
\* for the code.  With no active error it returns true and changes nothing.
\* Otherwise it increments retry_count (an 8-bit counter); if the new count is
\* below ERROR_MAX_RECOVERY_ATTEMPTS it returns true for COMM_LOST exactly when
\* the channel probe succeeds on that call, true for TIMEOUT and false for every
\* other code; if the new count has reached the maximum it returns false.
C29_RecoveryByCase ==
    [][Called("AttemptRecovery") =>
          LET error == g_sm_context.error_handler.current_error
              count == g_sm_context'.error_handler.current_error.retry_count
          IN  IF error.level = ERROR_LEVEL_NONE
              THEN /\ last'.ret = TRUE
                   /\ UNCHANGED <<g_sm_context, g_state_table, g_state_data, g_comm_verification, g_recovery_handlers>>
              ELSE g_recovery_handlers[error.code] = "NULL" =>
                     /\ count = (error.retry_count + 1) % UINT8_MOD
                     /\ last'.ret =
                            IF count >= ERROR_MAX_RECOVERY_ATTEMPTS
                            THEN FALSE
                            ELSE CASE error.code = ERROR_CODE_COMM_LOST ->
                                        ErrorHandler_VerifyCommChannel(World, now).ret
                                   [] error.code = ERROR_CODE_TIMEOUT -> TRUE
                                   [] OTHER -> FALSE]_vars

\* A recovery attempt on a COMM_LOST error succeeded: the probe reached its
\* count on that call, no handler being registered for the code
C29_Witness ==
    /\ last.op = "AttemptRecovery"
    /\ last.ret = TRUE
    /\ g_sm_context.error_handler.current_error.code = ERROR_CODE_COMM_LOST
    /\ g_sm_context.error_handler.current_error.level = ERROR_LEVEL_NORMAL
    /\ g_sm_context.error_handler.current_error.is_recovered
    /\ g_comm_verification.is_verified
    /\ g_recovery_handlers[ERROR_CODE_COMM_LOST] = "NULL"

\* C31: a call of ErrorHandler_VerifyCommChannel made when (now - window
\* start) <= COMM_VERIFICATION_WINDOW_MS increments the good-message count (an
\* 8-bit counter), leaves the window where it is and returns true exactly when
\* the count has reached COMM_VERIFICATION_COUNT; a call made later restarts
\* the window at now with count 1 and returns false.
C31_ProbeWindow ==
    [][Called("VerifyCommChannel") =>
          IF SubU32(now, g_comm_verification.window_start_time) <= COMM_VERIFICATION_WINDOW_MS
          THEN /\ g_comm_verification'.good_message_count = (g_comm_verification.good_message_count + 1) % UINT8_MOD
               /\ g_comm_verification'.window_start_time = g_comm_verification.window_start_time
               /\ last'.ret = (g_comm_verification'.good_message_count >= COMM_VERIFICATION_COUNT)
          ELSE /\ g_comm_verification'.window_start_time = now
               /\ g_comm_verification'.good_message_count = 1
               /\ last'.ret = FALSE]_vars

\* The probe succeeded on the last millisecond of a window that an earlier call
\* had restarted
C31_Witness ==
    /\ last.op = "VerifyCommChannel"
    /\ last.ret = TRUE
    /\ g_comm_verification.window_start_time = COMM_VERIFICATION_WINDOW_MS + 1
    /\ now = g_comm_verification.window_start_time + COMM_VERIFICATION_WINDOW_MS
    /\ g_comm_verification.good_message_count = COMM_VERIFICATION_COUNT

\* The current error is a NORMAL error that the recovery logic has no path for:
\* its code is neither TIMEOUT nor COMM_LOST and has no custom handler
Unrecoverable(error) ==
    /\ error.level = ERROR_LEVEL_NORMAL
    /\ error.code \notin {ERROR_CODE_TIMEOUT, ERROR_CODE_COMM_LOST}
    /\ g_recovery_handlers[error.code] = "NULL"

\* An unrecoverable NORMAL error has just been reported with the slot empty, in
\* a state that has an ERROR_NORMAL rule
UnrecoverableReport ==
    /\ Called("Report")
    /\ last'.arg = ERROR_LEVEL_NORMAL
    /\ last'.ret = TRUE
    /\ Unrecoverable(g_sm_context'.error_handler.current_error)
    /\ g_sm_context.pending_event = EVENT_NONE
    /\ ~g_sm_context.error_handler.critical_lock_active
    /\ RuleIndexes(g_sm_context.current_state, EVENT_ERROR_NORMAL) # {}

\* A tick in Recovery on an unrecoverable NORMAL error with nothing posted, every
\* tick of the visit so far having made one recovery attempt
UnrecoverableTick ==
    /\ Called("Execute")
    /\ g_sm_context.current_state = STATE_RECOVERY
    /\ ~g_sm_context.error_handler.critical_lock_active
    /\ g_sm_context.pending_event = EVENT_NONE
    /\ Unrecoverable(g_sm_context.error_handler.current_error)
    /\ g_sm_context.error_handler.current_error.retry_count = ghost.tick_runs
    /\ ghost.tick_runs < ERROR_MAX_RECOVERY_ATTEMPTS

\* C32 (as stated): after such a report the next tick ends in Recovery, and the
\* machine stays in Recovery until the ERROR_MAX_RECOVERY_ATTEMPTS-th tick spent
\* there, which ends in CriticalError.
C32_EscalatesOnMaxTick ==
    [][/\ UnrecoverableReport => StateMachine_Execute(World', now').ret = STATE_RECOVERY
       /\ UnrecoverableTick =>
             g_sm_context'.current_state = IF ghost.tick_runs + 1 = ERROR_MAX_RECOVERY_ATTEMPTS
                                           THEN STATE_CRITICAL_ERROR
                                           ELSE STATE_RECOVERY]_vars

\* C32 (amended): after such a report the next tick ends in Recovery, and the
\* machine reaches CriticalError at the latest on the
\* ERROR_MAX_RECOVERY_ATTEMPTS-th tick spent in Recovery, which posts
\* RECOVERY_FAILED; an earlier tick of the visit ends in CriticalError exactly
\* when it finds the Recovery state timeout elapsed and posts TIMEOUT.
C32_EscalatesByMaxTick ==
    [][/\ UnrecoverableReport => StateMachine_Execute(World', now').ret = STATE_RECOVERY
       /\ UnrecoverableTick =>
             LET exhausted == ghost.tick_runs + 1 = ERROR_MAX_RECOVERY_ATTEMPTS
                 elapsed == /\ ~g_sm_context.state_changed
                            /\ Platform_IsTimeout(now, g_sm_context.state_entry_time, RECOVERY_TIMEOUT_MS)
             IN  /\ g_sm_context'.current_state = IF exhausted \/ elapsed
                                                   THEN STATE_CRITICAL_ERROR
                                                   ELSE STATE_RECOVERY
                 /\ exhausted => g_sm_context'.error_handler.current_error.retry_count = ERROR_MAX_RECOVERY_ATTEMPTS
                 /\ ghost'.timeout_posted = (elapsed /\ ~exhausted)]_vars

\* The third tick spent in Recovery on a HARDWARE_FAULT error has ended in
\* CriticalError through RECOVERY_FAILED, no timeout having been posted
C32_Witness ==
    /\ last.op = "Execute"
    /\ g_sm_context.current_state = STATE_CRITICAL_ERROR
    /\ g_sm_context.previous_state = STATE_RECOVERY
    /\ g_sm_context.error_handler.current_error.level = ERROR_LEVEL_NORMAL
    /\ g_sm_context.error_handler.current_error.code = ERROR_CODE_HARDWARE_FAULT
    /\ g_sm_context.error_handler.current_error.retry_count = ERROR_MAX_RECOVERY_ATTEMPTS
    /\ ~ghost.timeout_posted
    /\ Len(ghost.hooks) = 2

\* C33: first match wins.  When the rule list of the current state holds
\* several rules for the event dispatched by a tick, the tick ends in the target
\* of the earliest-inserted one (the one at the lowest index); and appending a
\* rule for an event the state already handles changes neither the outcome of
\* the lookup of any event nor the state the next tick ends in.
C33_FirstMatchWins ==
    [][/\ (Called("Execute") /\ ~g_sm_context.error_handler.critical_lock_active) =>
             LET E == ExecuteBeforeEvent(World, now).w.ctx.pending_event
                 rules == RuleIndexes(g_sm_context.current_state, E)
             IN  Cardinality(rules) > 1 =>
                   \E first \in rules :
                       /\ \A i \in rules : first <= i
                       /\ g_sm_context'.current_state =
                              g_state_table[g_sm_context.current_state].transitions[first].next_state
       /\ (/\ Called("AddTransition")
           /\ last'.ret = TRUE
           /\ RuleIndexes(ghost'.add.state, ghost'.add.event) # {}) =>
             /\ \A e \in ValidEvents : CheckStateTransition(World', e) = CheckStateTransition(World, e)
             /\ StateMachine_Execute(World', now).ret = StateMachine_Execute(World, now).ret]_vars

\* A tick in Idle, whose list holds the built rule START -> Active and an
\* appended rule START -> Recovery, has dispatched START and ended in Active
C33_Witness ==
    /\ last.op = "Execute"
    /\ g_sm_context.previous_state = STATE_IDLE
    /\ g_sm_context.current_state = STATE_ACTIVE
    /\ g_sm_context.state_changed
    /\ \E i \in RuleIndexes(STATE_IDLE, EVENT_START) :
          g_state_table[STATE_IDLE].transitions[i].next_state = STATE_RECOVERY

\* The globals after n calls of StateMachine_Execute at clock value t, with
\* nothing else called between them
RECURSIVE Ticks(_, _, _)
Ticks(w, n, t) ==
    IF n = 0 THEN w ELSE Ticks([StateMachine_Execute(w, t).w EXCEPT !.hooks = << >>], n - 1, t)

\* C34: StateMachine_Reset without lockout, from any state S, runs S's on-exit
\* hook once and nothing else, sets the current-error level and code to none
\* and retry_count to 0, sets previous_state = S, current_state = Init and the
\* state-changed flag; the next tick runs Init's on-entry hook and then its
\* on-tick hook, which counts its first run, and with nothing pending the
\* machine stays in Init for four ticks and is in Idle after the fifth.
C34_ResetRestartsInit ==
    [][(Called("Reset") /\ ~g_sm_context.error_handler.critical_lock_active) =>
          LET S == g_sm_context.current_state
              tick == StateMachine_Execute(World', now).w
          IN  /\ ghost'.hooks = << <<"on_exit", S>> >>
              /\ g_sm_context'.error_handler.current_error.level = ERROR_LEVEL_NONE
              /\ g_sm_context'.error_handler.current_error.code = ERROR_CODE_NONE
              /\ g_sm_context'.error_handler.current_error.retry_count = 0
              /\ g_sm_context'.previous_state = S
              /\ g_sm_context'.current_state = STATE_INIT
              /\ g_sm_context'.state_changed
              /\ Len(tick.hooks) >= 2
              /\ tick.hooks[1] = <<"on_entry", STATE_INIT>>
              /\ tick.hooks[2] = <<"on_state", STATE_INIT>>
              /\ tick.data.init_step_count = 1
              /\ g_sm_context'.pending_event = EVENT_NONE =>
                    /\ \A n \in 1 .. (INIT_REQUIRED_STEPS - 1) :
                          /\ Ticks(World', n, now).ctx.current_state = STATE_INIT
                          /\ Ticks(World', n, now).data.init_step_count = n
                    /\ Ticks(World', INIT_REQUIRED_STEPS, now).ctx.current_state = STATE_IDLE]_vars

\* StateMachine_Reset was called in Recovery, where a reported error was being
\* retried, and has left the machine in Init with no current error
C34_Witness ==
    /\ last.op = "Reset"
    /\ g_sm_context.previous_state = STATE_RECOVERY
    /\ g_sm_context.current_state = STATE_INIT
    /\ g_sm_context.state_changed
    /\ ghost.hooks = << <<"on_exit", STATE_RECOVERY>> >>
    /\ ghost.log # << >>
    /\ ~g_sm_context.error_handler.critical_lock_active
    /\ g_sm_context.error_handler.current_error.level = ERROR_LEVEL_NONE

\* C35: no accepted event is lost to a race with the tick.  With posts from
\* interrupt handlers between any two blocks of StateMachine_Execute: a post is
\* accepted only into an empty slot and stores its event; an occupied slot
\* changes only by the tick's write of EVENT_NONE, which follows the lookup of
\* the very event it removes; the lookup reads the event that is in the slot
\* and leaves it there; so every accepted event is looked up by exactly one
\* tick before it is cleared, none is discarded undispatched and none is
\* dispatched twice.
C35_NoAcceptedEventLost ==
    [][/\ (Len(ghost'.isr) > Len(ghost.isr) /\ ghost'.isr[Len(ghost'.isr)][2]) =>
             /\ g_sm_context.pending_event = EVENT_NONE
             /\ g_sm_context'.pending_event = ghost'.isr[Len(ghost'.isr)][1]
       /\ (g_sm_context.pending_event # EVENT_NONE /\ g_sm_context'.pending_event # g_sm_context.pending_event) =>
             /\ call.pc = "tick_clear"
             /\ call.event = g_sm_context.pending_event
             /\ g_sm_context'.pending_event = EVENT_NONE
       /\ call.pc = "tick_clear" => call.event = g_sm_context.pending_event
       /\ (call.pc = "tick_lookup" /\ call'.pc # call.pc) =>
             /\ call'.pc = "tick_clear"
             /\ call'.event = g_sm_context.pending_event
             /\ call'.event \in ValidEvents
             /\ g_sm_context'.pending_event = g_sm_context.pending_event
       /\ (call.pc = "tick_test" /\ call'.pc = "tick_lookup") => g_sm_context.pending_event # EVENT_NONE]_vars

\* A tick in Idle found the slot empty at its test; an interrupt handler's post
\* of START came after the test and before the return, was accepted, and the
\* event is still in the slot
C35_Witness ==
    /\ call = [pc |-> "tick_return", event |-> EVENT_NONE, result |-> FALSE]
    /\ g_sm_context.current_state = STATE_IDLE
    /\ ~g_sm_context.state_changed
    /\ ghost.isr = << <<EVENT_START, TRUE>> >>
    /\ g_sm_context.pending_event = EVENT_START

EnvironmentStep == Called("PostEvent") \/ Called("Report")

HooksBalanced ==
    LET hooks == ghost'.hooks
    IN  /\ \A i \in 1 .. Len(hooks) :
              hooks[i][1] = "on_exit" =>
                  \/ ~g_sm_context.state_changed
                  \/ \E j \in 1 .. i - 1 : hooks[j] = <<"on_entry", hooks[i][2]>>
        /\ HookRuns(hooks, "on_entry") <= 1
        /\ HookRuns(hooks, "on_entry") = 1 => g_sm_context.state_changed

\* C38: entry and exit hooks are balanced per visit: over any sequence of
\* Execute, PostEvent, Report and Reset calls an on-exit hook runs only for a
\* visit whose on-entry hook has run (the first visit to Init after
\* StateMachine_Init excepted), and a visit runs on-entry at most once
C38_HooksBalancedPerVisit ==
    [][(Called("Execute") \/ Called("Reset")) => HooksBalanced]_vars

\* C39: after a MINOR error has escalated to NORMAL because its window expired,
\* the minor-error window is closed: the start timestamp and the good-signal
\* counter are reset, so that the next MINOR report starts a fresh window and
\* is handled locally
C39_WindowClosedAfterEscalation ==
    [][((MinorReport \/ Called("HandleMinorError")) /\ MinorWindowExpired) =>
          /\ g_sm_context'.error_handler.minor_error_timestamp = 0
          /\ g_sm_context'.error_handler.minor_good_message_count = 0]_vars

\* C40: StateMachine_Reset leaves the pending-event slot unchanged: an event
\* pending when Reset is called without lockout is still pending afterwards,
\* and the next tick dispatches it against the rule list of Init: the tick ends
\* in the target of Init's first rule for the event, or in Init when Init has
\* no rule for it, with the slot empty.
C40_ResetKeepsPendingEvent ==
    [][(Called("Reset") /\ ~g_sm_context.error_handler.critical_lock_active) =>
          LET E == g_sm_context.pending_event
              tick == StateMachine_Execute(World', now).w
          IN  /\ g_sm_context'.pending_event = E
              /\ E # EVENT_NONE =>
                    /\ tick.ctx.pending_event = EVENT_NONE
                    /\ tick.ctx.current_state = IF RuleIndexes(STATE_INIT, E) # {}
                                                THEN FirstRuleTarget(STATE_INIT, E)
                                                ELSE STATE_INIT]_vars

\* StateMachine_Reset was called outside Init with an event pending for which
\* Init has a rule, and the event is still in the slot
C40_Witness ==
    /\ last.op = "Reset"
    /\ g_sm_context.current_state = STATE_INIT
    /\ g_sm_context.previous_state # STATE_INIT
    /\ g_sm_context.state_changed
    /\ ~g_sm_context.error_handler.critical_lock_active
    /\ g_sm_context.pending_event \in ValidEvents
    /\ RuleIndexes(STATE_INIT, g_sm_context.pending_event) # {}
    /\ RuleIndexes(g_sm_context.previous_state, g_sm_context.pending_event) = {}


====
